---- MODULE Spec2Model ----
(***************************************************************************)
(* Document ingestion and synchronisation pipeline of the RAG tool:        *)
(* text normalisation, chunking and embedding (backend/core/               *)
(* text_processor.py), the storage handler (backend/core/db_handler.py)    *)
(* and the Drive watcher (backend/core/google_drive.py).                   *)
(*                                                                         *)
(* Text is a sequence of characters.  Characters are taken from a small    *)
(* alphabet with one representative per class that sanitize_text and       *)
(* str.strip tell apart.                                                   *)
(***************************************************************************)
EXTENDS Integers, Sequences, FiniteSets, TLC

(***************************************************************************)
(* Bounds of the model.                                                    *)
(***************************************************************************)
\* longest input text of the text-processing specifications
MaxLen == 5
\* largest chunk_size argument tried by the chunking specification
MaxChunkSize == 3
\* largest overlap argument tried by the chunking specification
MaxOverlap == 3

\* longest list of texts given to create_embeddings
MaxTexts == 3

\* how many times remote content is modified in all
MaxRev == 1
\* how many calls to the store, to Drive or to the provider raise in all
MaxFailures == 2
\* how many polling cycles watch_for_changes runs
MaxCycles == 2
\* how many calls raise or remote contents are modified, in all, while
\* watch_for_changes runs
MaxWatchEvents == 1
\* how many polling tasks start_monitoring creates in all
MaxTasks == 3

\* config['text_processing']['default_chunk_size'] of the watcher in the
\* reconciler specification (the shipped default is 400)
ChunkSizeCfg == 2

\* the chunking loop is cut off after this many appended chunks
MaxChunks == MaxLen + 2

(***************************************************************************)
(* Characters.                                                             *)
(***************************************************************************)
\* '\x00'
NUL == "x00"
\* a control character of [\x01-\x08\x0B\x0C\x0E-\x1F\x7F-\x9F]
CTL == "x01"
\* whitespace that the control-character class leaves in place (\t \n \r)
NL == "x0A"
\* the space character
SP == " "

\* the characters removed by re.sub(r'[\x00-\x08\x0B\x0C\x0E-\x1F\x7F-\x9F]', '', text)
ControlChars == {NUL, CTL}
\* the characters str.strip() removes at both ends
Whitespace == {SP, NL}
\* the alphabet of the input texts
Char == {"a", SP, NL, NUL, CTL}

\* all texts over alphabet A of length at most n
TextsOver(A, n) == UNION {[1..k -> A] : k \in 0..n}

Min(a, b) == IF a < b THEN a ELSE b

\* ceil(a / b) for a >= 0, b > 0
CeilDiv(a, b) == (a + b - 1) \div b

\* s[start:end] of Python: negative indices count from the end, both are clamped
PySlice(s, start, end) ==
    LET n  == Len(s)
        lo == IF start < 0 THEN (IF start + n < 0 THEN 0 ELSE start + n) ELSE Min(start, n)
        hi == IF end < 0 THEN (IF end + n < 0 THEN 0 ELSE end + n) ELSE Min(end, n)
    IN  IF lo < hi THEN SubSeq(s, lo + 1, hi) ELSE <<>>

RECURSIVE Concat(_)
\* the concatenation of a sequence of texts, in order
Concat(ss) == IF ss = <<>> THEN <<>> ELSE Head(ss) \o Concat(Tail(ss))

(***************************************************************************)
(* sanitize_text (text_processor.py:81-106).                               *)
(***************************************************************************)
\* text.replace(c, '') for every c in S  /  re.sub('[S]', '', text)
RemoveChars(text, S) == SelectSeq(text, LAMBDA c : c \notin S)

\* re.sub(r' +', ' ', text): of every run of spaces only the first space is kept
CollapseSpaces(text) ==
    LET marked == [i \in 1..Len(text) |->
                      [c |-> text[i], dup |-> i > 1 /\ text[i] = SP /\ text[i - 1] = SP]]
        kept   == SelectSeq(marked, LAMBDA m : ~m.dup)
    IN  [i \in 1..Len(kept) |-> kept[i].c]

\* text.strip(): drop leading and trailing whitespace
Strip(text) ==
    LET keep == {i \in 1..Len(text) : text[i] \notin Whitespace}
    IN  IF keep = {} THEN <<>>
        ELSE LET lo == CHOOSE i \in keep : \A j \in keep : i <= j
                 hi == CHOOSE i \in keep : \A j \in keep : j <= i
             IN  SubSeq(text, lo, hi)

\* a variant that collapses the spaces before the control characters are removed
sanitize_text_collapse_first(text) ==
    IF text = <<>> THEN <<>>
    ELSE Strip(RemoveChars(RemoveChars(CollapseSpaces(text), {NUL}), ControlChars))

sanitize_text(text) ==
    IF text = <<>> THEN <<>>
    ELSE Strip(CollapseSpaces(RemoveChars(RemoveChars(text, {NUL}), ControlChars)))

(***************************************************************************)
(* chunk_text (text_processor.py:109-137), one loop iteration per step.    *)
(***************************************************************************)
\* end = min(start + chunk_size, text_length)
ChunkEnd(start, chunk_size, text_length) == Min(start + chunk_size, text_length)

\* a variant that always steps over one more character
NextStartSkipping(end, overlap) == IF overlap > 0 THEN end - overlap ELSE end + 1

\* start = end - overlap if overlap > 0 else end
NextStart(end, overlap) == IF overlap > 0 THEN end - overlap ELSE end

RECURSIVE chunk_loop(_, _, _, _, _)
\* the while loop of chunk_text as a function; it is defined only where the loop ends
chunk_loop(text, chunk_size, overlap, start, chunks) ==
    IF start < Len(text)
    THEN LET end == ChunkEnd(start, chunk_size, Len(text))
         IN  chunk_loop(text, chunk_size, overlap, NextStart(end, overlap),
                        Append(chunks, PySlice(text, start, end)))
    ELSE chunks

\* chunk_text for overlap = 0 (with overlap > 0 the loop does not end, see ChunkLoop)
chunk_text(text, chunk_size, overlap) ==
    LET t == sanitize_text(text)
    IN  IF t = <<>> THEN <<>> ELSE chunk_loop(t, chunk_size, overlap, 0, <<>>)

(***************************************************************************)
(* create_embeddings (text_processor.py:140-170).                          *)
(***************************************************************************)
\* the vector the provider computes for one input text; a vector is known
\* only by the text it embeds
Embedding(text) == [of |-> text]

\* response.data of client.embeddings.create(input=...): one item per input
\* text, in the order of the input (lines 162-168)
ProviderEmbeddings(input) == [i \in 1..Len(input) |-> Embedding(input[i])]

\* a variant that sanitizes the texts but keeps the empty ones
EmbedInputUnfiltered(texts) == [i \in 1..Len(texts) |-> sanitize_text(texts[i])]

\* lines 154-156: the sanitized texts without the empty ones
EmbedInput(texts) ==
    SelectSeq([i \in 1..Len(texts) |-> sanitize_text(texts[i])], LAMBDA t : t # <<>>)

(***************************************************************************)
(* The watched Drive folder and the watcher's configuration.               *)
(***************************************************************************)
\* the ids of the remote files
FileIds == {"f1", "f2", "f3", "f4"}
\* the order in which files().list returns the files
FileOrder == <<"f1", "f2", "f3", "f4">>
\* the folder GOOGLE_DRIVE_FOLDER_ID names, and self.folder_id when none is set
FolderId == "folder"
NoFolder == ""
\* a folder inside the watched folder
SubfolderId == "sub"
\* the folder each file lies in: f3 lies in the subfolder
Parents == [f \in FileIds |-> IF f = "f3" THEN SubfolderId ELSE FolderId]
\* the folders get_folder_contents visits from a folder (google_drive.py:124-139)
FoldersUnder(folder) == IF folder = FolderId THEN {FolderId, SubfolderId} ELSE {folder}
\* file['name']
FileName ==
    [f \in FileIds |-> CASE f = "f1" -> "notes.txt"
                         [] f = "f2" -> "data.csv"
                         [] f = "f3" -> "deep.txt"
                         [] OTHER    -> "photo.png"]
\* file['mimeType']: f4 has a type that is not in supported_mime_types
MimeType ==
    [f \in FileIds |-> CASE f = "f2" -> "text/csv"
                         [] f = "f4" -> "image/png"
                         [] OTHER    -> "text/plain"]
\* file['webViewLink']
WebViewLink == [f \in FileIds |-> <<"link", f>>]

\* the contents a remote file can have: two texts that chunk differently and
\* one in which nothing but whitespace is found
ContentA == <<"a", "b", SP, SP, "a">>
ContentB == <<"b", "b">>
ContentBlank == <<SP, NL>>
Contents == {ContentA, ContentB, ContentBlank}

\* the rows a caller hands to insert_document_rows
TabularRows == <<"row1">>

\* config['supported_mime_types'] (text_processor.py:351-364)
SupportedMimeTypes ==
    { "application/pdf", "text/plain", "text/html", "text/csv", "text/markdown",
      "text/x-markdown",
      "application/vnd.openxmlformats-officedocument.wordprocessingml.document",
      "application/vnd.openxmlformats-officedocument.spreadsheetml.sheet",
      "application/vnd.openxmlformats-officedocument.presentationml.presentation",
      "application/vnd.google-apps.document",
      "application/vnd.google-apps.spreadsheet",
      "application/vnd.google-apps.presentation" }

\* any(mime_type.startswith(t) for t in supported_mime_types); every MIME type
\* of the model either is an entry of the list or has no entry as a prefix
IsSupported(mime_type) == mime_type \in SupportedMimeTypes

\* the default tabular_mime_types of is_tabular_file (text_processor.py:582-588)
TabularMimeTypes ==
    { "csv", "xlsx", "text/csv",
      "application/vnd.openxmlformats-officedocument.spreadsheetml.sheet",
      "application/vnd.google-apps.spreadsheet" }

\* is_tabular_file: any(mime_type.startswith(t) for t in tabular_mime_types)
is_tabular_file(mime_type) == mime_type \in TabularMimeTypes

\* file_content.decode('utf-8', errors='replace'): an invalid byte becomes U+FFFD
Utf8Decode(file_content) ==
    [i \in 1..Len(file_content) |->
        IF file_content[i] = "xFF" THEN "uFFFD" ELSE file_content[i]]

\* mime_type.startswith('text/'), for the MIME types of the model
StartsWithText(mime_type) ==
    mime_type \in {"text/plain", "text/html", "text/csv", "text/markdown",
                   "text/x-markdown"}

\* file_name.endswith(ext), for the file names of the model
EndsWith(file_name, ext) ==
    \/ ext = ".txt" /\ file_name \in {"notes.txt", "deep.txt", "renamed.txt"}
    \/ ext = ".csv" /\ file_name = "data.csv"
    \/ ext = ".html" /\ file_name = "page.html"

RECURSIVE ReplaceTags(_, _)
\* re.sub(r'<[^>]+>', rep, html): a match starts at a "<" that is followed by at
\* least one character other than ">" and then by a ">", and it ends at the
\* first ">"; the scan goes on after the match
ReplaceTags(html, rep) ==
    IF html = <<>> THEN <<>>
    ELSE LET closes == {j \in 2..Len(html) : html[j] = ">"}
             j      == CHOOSE k \in closes : \A l \in closes : k <= l
         IN  IF html[1] = "<" /\ closes # {} /\ j > 2
             THEN rep \o ReplaceTags(SubSeq(html, j + 1, Len(html)), rep)
             ELSE <<html[1]>> \o ReplaceTags(Tail(html), rep)

\* re.sub(r'<[^>]+>', ' ', html_content)
StripTags(html_content) == ReplaceTags(html_content, <<SP>>)

\* markdownify.markdownify(html_content, heading_style="ATX"): the text of the
\* elements is kept and the tags are not; the markdown markup the library
\* writes for headings and links is not modelled
Markdownify(html_content) == ReplaceTags(html_content, <<>>)

\* len(html_content.strip()) > 50 of the Google Docs branch
MinHtmlLen == 50

\* extract_text_from_file (text_processor.py:222-326): the branches in the
\* order of the code.  The PDF and DOCX branches (lines 237-248), which parse
\* the bytes with libraries, are not modelled: no file of the model has one of
\* these types or a .docx name.  For an image (line 320) the text is the file
\* name, kept as one token.  markdown is MARKDOWN_CONVERSION_AVAILABLE.
extract_text_from_file(file_content, mime_type, file_name, markdown) ==
    LET decoded == Utf8Decode(file_content)
        text ==
            IF StartsWithText(mime_type) \/ EndsWith(file_name, ".txt")
            THEN decoded
            ELSE IF mime_type = "text/html" \/ EndsWith(file_name, ".html")
            THEN StripTags(decoded)
            ELSE IF mime_type = "text/csv" \/ EndsWith(file_name, ".csv")
            THEN decoded
            ELSE IF mime_type = "application/vnd.google-apps.document"
            THEN IF decoded # <<>> /\ Len(Strip(decoded)) > MinHtmlLen
                 THEN IF markdown THEN sanitize_text(Markdownify(decoded))
                      ELSE sanitize_text(StripTags(decoded))
                 ELSE decoded
            ELSE IF mime_type = "application/vnd.google-apps.spreadsheet"
            THEN decoded
            ELSE IF mime_type = "application/vnd.google-apps.presentation"
            THEN IF markdown /\ decoded # <<>>
                 THEN sanitize_text(Markdownify(decoded))
                 ELSE sanitize_text(StripTags(decoded))
            ELSE IF mime_type = "image/png"
            THEN <<file_name>>
            ELSE decoded
    IN  sanitize_text(text)

\* config['export_mime_types'] (text_processor.py:365-369)
ExportMimeTypes ==
    [t \in {"application/vnd.google-apps.document",
            "application/vnd.google-apps.spreadsheet",
            "application/vnd.google-apps.presentation"} |->
        IF t = "application/vnd.google-apps.spreadsheet" THEN "text/csv" ELSE "text/html"]

\* a variant of the test that never finds a type to export
NeedsExportNever(mime_type) == FALSE

\* download_file, line 207: mime_type in export_mime_types
NeedsExport(mime_type) == mime_type \in DOMAIN ExportMimeTypes

\* download_file, lines 207-215: files().export_media(fileId, mimeType) for a
\* type that is exported, files().get_media(fileId) for any other
DownloadRequest(file_id, mime_type) ==
    IF NeedsExport(mime_type)
    THEN [method |-> "export_media", fileId |-> file_id,
          mimeType |-> ExportMimeTypes[mime_type]]
    ELSE [method |-> "get_media", fileId |-> file_id, mimeType |-> "-"]

\* no request has been built
NoRequest == [method |-> "-", fileId |-> "-", mimeType |-> "-"]

\* the None download_file returns after an exception (lines 229-231); as a value
\* of the model it differs from every content
None == <<"None">>

\* one row of the documents table (db_handler.py:122-133); the row's file_id is
\* the key under which the model keeps it
DocRow(i, chunk, embedding) ==
    [chunk_index |-> i, content |-> chunk, embedding |-> embedding]

\* the chunk rows insert_document_chunks writes for these chunks and embeddings
RowsOf(chunks, embeddings) ==
    [i \in 1..Len(chunks) |-> DocRow(i - 1, chunks[i], embeddings[i])]

\* one row of the document_metadata table (db_handler.py:165-169)
MetaRow(file_id, file_title, file_url) ==
    [id |-> file_id, title |-> file_title, url |-> file_url]

\* a variant of check_document_exists that finds every file
CheckDocumentExistsAlways(docs, metadata, file_id) == TRUE

\* check_document_exists (db_handler.py:76-89) when both queries succeed
CheckDocumentExists(docs, metadata, file_id) ==
    \/ Len(docs[file_id]) > 0
    \/ \E m \in metadata : m.id = file_id

\* an assignment that is lost
DictSetForgets(d, k, v) == d

\* known_files[file_id] = value
DictSet(d, k, v) == [x \in (DOMAIN d) \cup {k} |-> IF x = k THEN v ELSE d[x]]
\* del known_files[file_id]
DictDel(d, k) == [x \in (DOMAIN d) \ {k} |-> d[x]]

\* the file dictionary of a call that is not running
NoFile == [id |-> "-", name |-> "-", mimeType |-> "-", webViewLink |-> <<>>,
           modifiedTime |-> 0, trashed |-> FALSE]
\* the result record while no call has returned
NoRet == [op |-> "-", file |-> "-", ok |-> FALSE, cleaned |-> 0, errors |-> 0]

VARIABLES
    \* sanitize_text applied once and twice to an input
    sn_pc, sn_text, sn_once, sn_twice,
    \* a call of chunk_text: its arguments, its locals and its position
    ck_pc, ck_arg, ck_size, ck_overlap, ck_text, ck_start, ck_chunks,
    \* a call of create_embeddings: its argument, its result and its position
    em_pc, em_texts, em_result,
    \* whether OPENAI_API_KEY is set, and the requests the embedding provider got
    api_key, provider_requests,
    \* the remote files: trashed flag, content and modifiedTime of each, and the
    \* current time
    remote_trashed, remote_content, remote_mtime, now,
    \* the files that exist in the Drive, and self.folder_id
    drive_files, folder_id,
    \* MARKDOWN_CONVERSION_AVAILABLE of text_processor.py
    markdown_available,
    \* the watcher: self.last_check_time, self.initialized, the position of
    \* watch_for_changes, changed_files and the position in it, the cycles done
    last_check_time, initialized, w_pc, changed_files, w_i, cycles,
    \* the time at which the current cycle called get_changes, and the files the
    \* current bulk reconciliation or cycle has passed to process_file, each with
    \* the number of raised calls before it
    polled_at, calls,
    \* initialize_and_sync_files: all_files and the position in it,
    \* files_to_process, trashed_files_to_cleanup, stats, and its position
    all_files, is_i, files_to_process, trashed_files_to_cleanup, stats,
    \* the tables of the store: chunk rows and tabular rows of each file_id (in
    \* the order of insertion) and the set of metadata rows
    documents, document_rows, document_metadata,
    \* self.known_files of the watcher
    known_files,
    \* the position of the watcher's task and the result of the call that returned
    pc, ret,
    \* how many calls have raised so far
    failures,
    \* the trashed files whose delete from the store has reported success
    was_cleaned,
    \* process_file: the file dictionary, the downloaded bytes, the extracted text
    pf_file, pf_content, pf_text,
    \* the request download_file has built for the Drive API
    pf_request,
    \* delete_document_by_file_id: its argument, where it returns to, its result
    del_file, del_ret, del_ok,
    \* process_file_for_rag and the calls it makes: chunks, embeddings, whether
    \* the metadata row was found, the index of the next row to insert, and the
    \* chunk rows the file had when the call began
    rag_chunks, rag_embeddings, meta_found, ins_i, rag_ok, rag_prior,
    \* detect_trashed_files and cleanup_trashed_files: the listed files, the
    \* position in them, trashed_file_ids, the position in it, the two counts
    dt_files, dt_i, trashed_file_ids, cl_i, cleaned_count, error_count,
    \* what cleanup_trashed_files found when it was called: the store, known_files
    \* and the files already fully cleaned; and the ids it counted as cleaned
    pre_store, pre_known, pre_cleaned, cl_cleaned,
    \* insert_document_rows: its file_id, the index of the next row to insert
    idr_file, idr_i,
    \* app_state["is_monitoring"] and app_state["monitoring_task"] of main.py
    is_monitoring, monitoring_task,
    \* the polling tasks: where each is suspended, and whether cancel() was called
    \* on it and the CancelledError is still to be delivered
    task_at, cancel_req,
    \* the calls of the database handler that run in a thread of the executor
    running,
    \* where the manual_cleanup request is suspended, and whether a WebSocket
    \* client is in manager.active_connections
    api_at, connected,
    \* the request handled by the last step, the state it found (for a stop
    \* request), and the tasks stop_monitoring has cancelled
    request, before_stop, stopped

snVars == <<sn_pc, sn_text, sn_once, sn_twice>>
ckVars == <<ck_pc, ck_arg, ck_size, ck_overlap, ck_text, ck_start, ck_chunks>>
emVars == <<em_pc, em_texts, em_result, api_key, provider_requests>>
remoteVars == <<remote_trashed, remote_content, remote_mtime, now>>
cfgVars == <<drive_files, folder_id, markdown_available>>
watchVars == <<last_check_time, initialized, w_pc, changed_files, w_i, cycles,
               polled_at, calls>>
syncVars == <<all_files, is_i, files_to_process, trashed_files_to_cleanup, stats>>
\* the variables of the callers of process_file and cleanup_trashed_files
monVars == <<is_monitoring, monitoring_task, task_at, cancel_req, running, api_at,
            connected, request, before_stop, stopped>>
callerVars == <<cfgVars, watchVars, syncVars, monVars>>
storeVars == <<documents, document_rows, document_metadata>>
pfVars == <<pf_file, pf_content, pf_text, pf_request>>
delVars == <<del_file, del_ret, del_ok>>
ragVars == <<rag_chunks, rag_embeddings, meta_found, ins_i, rag_ok, rag_prior>>
clVars == <<dt_files, dt_i, trashed_file_ids, cl_i, cleaned_count, error_count,
            pre_store, pre_known, pre_cleaned, cl_cleaned>>
idrVars == <<idr_file, idr_i>>
\* the variables of the store, the remote files and the watcher
rcVars == <<remoteVars, storeVars, known_files, pc, ret, failures, was_cleaned, pfVars, delVars, ragVars,
            clVars, idrVars, callerVars>>
\* the variables of the text-processing calls
textVars == <<snVars, ckVars, emVars>>
vars == <<textVars, rcVars>>

\* the variables of sanitize_text's calls while none is running
SnIdle ==
    /\ sn_pc = "off"
    /\ sn_text = <<>>
    /\ sn_once = <<>>
    /\ sn_twice = <<>>

\* the variables of chunk_text's call while none is running
CkIdle ==
    /\ ck_pc = "off"
    /\ ck_arg = <<>>
    /\ ck_size = 1
    /\ ck_overlap = 0
    /\ ck_text = <<>>
    /\ ck_start = 0
    /\ ck_chunks = <<>>

\* the variables of create_embeddings' call while none is running
EmIdle ==
    /\ em_pc = "off"
    /\ em_texts = <<>>
    /\ em_result = <<>>
    /\ api_key = TRUE
    /\ provider_requests = <<>>

\* the locals of the watcher's calls while none is running
LocalsIdle ==
    /\ pf_file = NoFile
    /\ pf_content = <<>>
    /\ pf_text = <<>>
    /\ pf_request = NoRequest
    /\ del_file = "-"
    /\ del_ret = "-"
    /\ del_ok = FALSE
    /\ rag_chunks = <<>>
    /\ rag_embeddings = <<>>
    /\ meta_found = FALSE
    /\ ins_i = 0
    /\ rag_ok = FALSE
    /\ rag_prior = <<>>
    /\ dt_files = <<>>
    /\ dt_i = 0
    /\ trashed_file_ids = <<>>
    /\ cl_i = 0
    /\ cleaned_count = 0
    /\ error_count = 0
    /\ pre_store = <<>>
    /\ pre_known = <<>>
    /\ pre_cleaned = {}
    /\ cl_cleaned = {}
    /\ idr_file = "-"
    /\ idr_i = 0

\* datetime.fromtimestamp(0, timezone.utc), and the time at which the remote
\* files were created
Epoch == 0
Created == 1

\* the polling tasks start_monitoring can create, and monitoring_task = None
TaskIds == 1..MaxTasks
NoTask == 0
\* the owner of the executor calls of the manual_cleanup request
ApiRequest == MaxTasks + 1

\* app_state of main.py (lines 25-29) before any request: no polling task, no
\* call in the executor, no request in progress
MonitorIdle ==
    /\ is_monitoring = FALSE
    /\ monitoring_task = NoTask
    /\ task_at = [t \in TaskIds |-> "none"]
    /\ cancel_req = [t \in TaskIds |-> FALSE]
    /\ running = {}
    /\ api_at = "idle"
    /\ connected = FALSE
    /\ request = "-"
    /\ before_stop = <<>>
    /\ stopped = {}

\* stats of initialize_and_sync_files (google_drive.py:397); cleanup_errors is
\* no key of the dictionary: it keeps cleanup_stats["errors"] of line 447
NoStats == [processed |-> 0, skipped |-> 0, cleaned |-> 0, errors |-> 0,
            cleanup_errors |-> 0]

\* the watcher's own fields after construction (google_drive.py:46-56) and the
\* locals of watch_for_changes and initialize_and_sync_files while they do not run
CallerIdle ==
    /\ last_check_time = Epoch
    /\ initialized = FALSE
    /\ w_pc = "off"
    /\ changed_files = <<>>
    /\ w_i = 0
    /\ cycles = 0
    /\ polled_at = Epoch
    /\ calls = <<>>
    /\ all_files = <<>>
    /\ is_i = 0
    /\ files_to_process = <<>>
    /\ trashed_files_to_cleanup = <<>>
    /\ stats = NoStats

\* the store, the remote files and the watcher right after construction
\* (google_drive.py:30-62): nothing stored, nothing known, no call running
WatcherInit ==
    /\ drive_files = {"f1", "f2"}
    /\ folder_id = FolderId
    /\ markdown_available = TRUE
    /\ CallerIdle
    /\ now = Created
    /\ remote_trashed = [f \in FileIds |-> FALSE]
    /\ remote_content = [f \in FileIds |-> ContentA]
    /\ remote_mtime = [f \in FileIds |-> Created]
    /\ documents = [f \in FileIds |-> <<>>]
    /\ document_rows = [f \in FileIds |-> <<>>]
    /\ document_metadata = {}
    /\ known_files = <<>>
    /\ pc = "idle"
    /\ ret = NoRet
    /\ failures = 0
    /\ was_cleaned = {}
    /\ LocalsIdle

(***************************************************************************)
(* Specification SpecSanitize: sanitize_text on every input text.          *)
(***************************************************************************)
InitSanitize ==
    /\ sn_pc = "call"
    /\ sn_text \in TextsOver(Char, MaxLen)
    /\ sn_once = <<>>
    /\ sn_twice = <<>>
    /\ CkIdle
    /\ EmIdle
    /\ WatcherInit
    /\ MonitorIdle

\* sanitize_text(x)
SanitizeOnce ==
    /\ sn_pc = "call"
    /\ sn_once' = sanitize_text(sn_text)
    /\ sn_pc' = "once"
    /\ UNCHANGED <<sn_text, sn_twice, ckVars, emVars, rcVars>>

\* sanitize_text(sanitize_text(x))
SanitizeTwice ==
    /\ sn_pc = "once"
    /\ sn_twice' = sanitize_text(sn_once)
    /\ sn_pc' = "twice"
    /\ UNCHANGED <<sn_text, sn_once, ckVars, emVars, rcVars>>

NextSanitize == SanitizeOnce \/ SanitizeTwice

SpecSanitize == InitSanitize /\ [][NextSanitize]_vars

(***************************************************************************)
(* Specification SpecChunk: chunk_text on every input text, chunk_size     *)
(* and overlap, and on the 1000-character example of the documentation.    *)
(***************************************************************************)
\* "a" * 1000
ExampleText == [i \in 1..1000 |-> "a"]

InitChunk ==
    /\ ck_pc = "call"
    /\ \/ /\ ck_arg \in TextsOver({"a", SP, CTL}, MaxLen)
          /\ ck_size \in 1..MaxChunkSize
          /\ ck_overlap \in 0..MaxOverlap
       \/ /\ ck_arg = ExampleText
          /\ ck_size = 400
          /\ ck_overlap = 0
    /\ ck_text = <<>>
    /\ ck_start = 0
    /\ ck_chunks = <<>>
    /\ SnIdle
    /\ EmIdle
    /\ WatcherInit
    /\ MonitorIdle

\* lines 121-129: sanitize, return [] for empty text, else enter the loop
ChunkCall ==
    /\ ck_pc = "call"
    /\ ck_text' = sanitize_text(ck_arg)
    /\ ck_chunks' = <<>>
    /\ ck_start' = 0
    /\ ck_pc' = IF ck_text' = <<>> THEN "done" ELSE "loop"
    /\ UNCHANGED <<ck_arg, ck_size, ck_overlap, snVars, emVars, rcVars>>

\* lines 131-135: one iteration of the while loop
ChunkLoop ==
    /\ ck_pc = "loop"
    /\ ck_start < Len(ck_text)
    /\ Len(ck_chunks) < MaxChunks
    /\ LET end == ChunkEnd(ck_start, ck_size, Len(ck_text))
       IN  /\ ck_chunks' = Append(ck_chunks, PySlice(ck_text, ck_start, end))
           /\ ck_start' = NextStart(end, ck_overlap)
    /\ UNCHANGED <<ck_pc, ck_arg, ck_size, ck_overlap, ck_text, snVars, emVars, rcVars>>

\* lines 131, 137: the loop condition fails and chunks is returned
ChunkReturn ==
    /\ ck_pc = "loop"
    /\ ~(ck_start < Len(ck_text))
    /\ ck_pc' = "done"
    /\ UNCHANGED <<ck_arg, ck_size, ck_overlap, ck_text, ck_start, ck_chunks, snVars, emVars, rcVars>>

NextChunk == ChunkCall \/ ChunkLoop \/ ChunkReturn

SpecChunk == InitChunk /\ [][NextChunk]_vars

(***************************************************************************)
(* Specification SpecEmbed: create_embeddings on every list of texts.      *)
(***************************************************************************)
\* the texts a list given to create_embeddings is made of
EmbedTexts == {<<>>, <<SP>>, <<NL, CTL>>, <<"a">>, <<"b">>, <<"a", SP>>, <<CTL, "b">>}

InitEmbed ==
    /\ em_pc = "call"
    /\ em_texts \in UNION {[1..k -> EmbedTexts] : k \in 0..MaxTexts}
    /\ em_result = <<>>
    /\ api_key \in BOOLEAN
    /\ provider_requests = <<>>
    /\ SnIdle
    /\ CkIdle
    /\ WatcherInit
    /\ MonitorIdle

\* lines 150-159: nothing to embed, [] is returned before the client is asked for
CreateEmbeddingsNothing ==
    /\ em_pc = "call"
    /\ em_texts = <<>> \/ EmbedInput(em_texts) = <<>>
    /\ em_result' = <<>>
    /\ em_pc' = "returned"
    /\ UNCHANGED <<em_texts, api_key, provider_requests, snVars, ckVars, rcVars>>

\* lines 161, 69-79: get_openai_client raises ValueError without OPENAI_API_KEY
CreateEmbeddingsNoKey ==
    /\ em_pc = "call"
    /\ em_texts # <<>> /\ EmbedInput(em_texts) # <<>>
    /\ ~api_key
    /\ em_pc' = "raised"
    /\ UNCHANGED <<em_texts, em_result, api_key, provider_requests, snVars, ckVars, rcVars>>

\* lines 161-170: one request with all the texts; the provider answers or fails
CreateEmbeddingsRequest ==
    /\ em_pc = "call"
    /\ em_texts # <<>> /\ EmbedInput(em_texts) # <<>>
    /\ api_key
    /\ provider_requests' = Append(provider_requests, EmbedInput(em_texts))
    /\ \/ /\ em_result' = ProviderEmbeddings(EmbedInput(em_texts))
          /\ em_pc' = "returned"
       \/ /\ em_result' = em_result
          /\ em_pc' = "raised"
    /\ UNCHANGED <<em_texts, api_key, snVars, ckVars, rcVars>>

NextEmbed == CreateEmbeddingsNothing \/ CreateEmbeddingsNoKey \/ CreateEmbeddingsRequest

SpecEmbed == InitEmbed /\ [][NextEmbed]_vars

(***************************************************************************)
(* Specification Spec: the store, the remote files and the watcher's task. *)
(* The task runs one call at a time; every call to the store, to Drive or  *)
(* to the embedding provider is one step, and it succeeds or raises.       *)
(***************************************************************************)
Init ==
    /\ SnIdle
    /\ CkIdle
    /\ EmIdle
    /\ WatcherInit
    /\ MonitorIdle

\* the outcomes of a call that can raise: it succeeds (TRUE) or raises (FALSE)
\* the number of modifications of remote content so far
TotalRevs == now - Created
\* how many more calls may raise, and how many more modifications may be made
FailureBudget ==
    IF w_pc = "off" THEN MaxFailures - failures
    ELSE MaxWatchEvents - (failures + TotalRevs)
RevBudget ==
    IF w_pc = "off" THEN MaxRev - TotalRevs
    ELSE MaxWatchEvents - (failures + TotalRevs)
Outcomes == IF FailureBudget > 0 THEN BOOLEAN ELSE {TRUE}
\* an outcome is counted
Charge(ok) == failures' = IF ok THEN failures ELSE failures + 1

\* a function returns to the task: its result is kept until the task goes on
Return(op, file_id, ok, cleaned, errors) ==
    /\ pc' = "returned"
    /\ ret' = [op |-> op, file |-> file_id, ok |-> ok, cleaned |-> cleaned,
               errors |-> errors]

\* The task reads the remote files when a listing is made (for the call of
\* process_file, by initialize_and_sync_files or by get_changes), when
\* download_file runs and when detect_trashed_files lists the trashed files;
\* a listing of get_changes has been evaluated before last_check_time is set.
\* A remote change commutes with every other step of the task,
\* so it is taken right before one of these.
RemoteObserved ==
    \/ pc \in {"pf_download", "dt_list"}
    \/ pc = "idle" /\ w_pc \in {"off", "is_list", "w_cycle", "w_listed"}

\* the owner of a remote file changes its content
RemoteModify(f) ==
    /\ RemoteObserved
    /\ RevBudget > 0
    /\ \E c \in Contents \ {remote_content[f]} :
          remote_content' = [remote_content EXCEPT ![f] = c]
    /\ now' = now + 1
    /\ remote_mtime' = [remote_mtime EXCEPT ![f] = now + 1]
    /\ UNCHANGED <<remote_trashed, storeVars, known_files, pc, ret, pfVars, delVars,
                   ragVars, clVars, idrVars, textVars, was_cleaned, failures,
                   callerVars>>

\* the owner of a remote file moves it to the trash
RemoteTrash(f) ==
    /\ RemoteObserved
    /\ ~remote_trashed[f]
    /\ remote_trashed' = [remote_trashed EXCEPT ![f] = TRUE]
    /\ UNCHANGED <<remote_content, remote_mtime, now, storeVars, known_files, pc, ret,
                   pfVars, delVars, ragVars, clVars, idrVars, textVars, was_cleaned, failures,
                   callerVars>>

(* process_file (google_drive.py:233-297) *)

\* the dictionary a listing gives for a file now
FileDict(f) ==
    [id |-> f, name |-> FileName[f], mimeType |-> MimeType[f],
     webViewLink |-> WebViewLink[f], modifiedTime |-> remote_mtime[f],
     trashed |-> remote_trashed[f]]

\* process_file is called with a file dictionary
ProcessFileCall(file) ==
    /\ pc = "idle"
    /\ pf_file' = file
    /\ pc' = "pf_start"
    /\ UNCHANGED <<remoteVars, storeVars, known_files, ret, pf_content, pf_text,
                   pf_request, delVars, ragVars, clVars, idrVars, textVars, was_cleaned, failures,
                   callerVars>>

\* lines 250-263: a trashed file is deleted from the store, a file of an
\* unsupported type is skipped, any other file is downloaded
ProcessFileStart ==
    /\ pc = "pf_start"
    /\ IF pf_file.trashed
       THEN /\ del_file' = pf_file.id
            /\ del_ret' = "pf_trashed"
            /\ pc' = "del_docs"
            /\ UNCHANGED <<ret, del_ok>>
       ELSE IF ~IsSupported(pf_file.mimeType)
            THEN /\ Return("process_file", pf_file.id, FALSE, 0, 0)
                 /\ UNCHANGED delVars
            ELSE /\ pc' = "pf_download"
                 /\ UNCHANGED <<ret, delVars>>
    /\ UNCHANGED <<remoteVars, storeVars, known_files, pfVars, ragVars, clVars,
                   idrVars, textVars, was_cleaned, failures,
                   callerVars>>

\* lines 254-257: the delete has returned; on success the file is forgotten
ProcessFileTrashed ==
    /\ pc = "pf_trashed"
    /\ known_files' = IF del_ok /\ pf_file.id \in DOMAIN known_files
                      THEN DictDel(known_files, pf_file.id)
                      ELSE known_files
    /\ was_cleaned' = IF del_ok THEN was_cleaned \cup {pf_file.id} ELSE was_cleaned
    /\ Return("process_file", pf_file.id, del_ok, 0, 0)
    /\ UNCHANGED <<remoteVars, storeVars, pfVars, delVars, ragVars, clVars, idrVars,
                   textVars, failures,
                   callerVars>>

\* a variant of the test that takes every value for content
FalsyNever(x) == FALSE

\* not x, for x a bytes object, a str or None
Falsy(x) == x = None \/ x = <<>>

\* lines 267-270 and download_file (lines 189-231): the request is built and
\* the file is fetched, which gives the bytes, or None if a call raised;
\* without content the call fails
ProcessFileDownload ==
    /\ pc = "pf_download"
    /\ pf_request' = DownloadRequest(pf_file.id, pf_file.mimeType)
    /\ \E ok \in Outcomes :
          /\ Charge(ok)
          /\ pf_content' = IF ok THEN remote_content[pf_file.id] ELSE None
    /\ IF Falsy(pf_content')
       THEN Return("process_file", pf_file.id, FALSE, 0, 0)
       ELSE pc' = "pf_extract" /\ UNCHANGED ret
    /\ UNCHANGED <<remoteVars, storeVars, known_files, pf_file, pf_text, delVars,
                   ragVars, clVars, idrVars, textVars, was_cleaned,
                   callerVars>>

\* lines 273-283: the text is extracted; without text the call fails, else
\* process_file_for_rag is called
ProcessFileExtract ==
    /\ pc = "pf_extract"
    /\ pf_text' = extract_text_from_file(pf_content, pf_file.mimeType, pf_file.name,
                                         markdown_available)
    /\ IF Falsy(pf_text')
       THEN Return("process_file", pf_file.id, FALSE, 0, 0)
       ELSE pc' = "rag_start" /\ UNCHANGED ret
    /\ UNCHANGED <<remoteVars, storeVars, known_files, pf_file, pf_content,
                   pf_request, delVars, ragVars, clVars, idrVars, textVars,
                   was_cleaned, failures, callerVars>>

\* lines 285-293: process_file_for_rag has returned; the file is recorded in
\* known_files whatever the result, and the result is returned
ProcessFileAfterRag ==
    /\ pc = "pf_after_rag"
    /\ known_files' = DictSet(known_files, pf_file.id, pf_file.modifiedTime)
    /\ Return("process_file", pf_file.id, rag_ok, 0, 0)
    /\ UNCHANGED <<remoteVars, storeVars, pfVars, delVars, ragVars, clVars, idrVars,
                   textVars, was_cleaned, failures,
                   callerVars>>

(* delete_document_by_file_id (db_handler.py:30-64) *)

\* a delete that leaves the chunk rows in the table
KeepsChunkRows(docs, file_id) == docs

\* line 42: documents after delete().eq("metadata->>file_id", file_id)
WithoutChunkRows(docs, file_id) == [docs EXCEPT ![file_id] = <<>>]

\* lines 41-44, 62-64: delete the chunk rows; if that raises, False is returned
DeleteDocuments ==
    /\ pc = "del_docs"
    /\ \E ok \in Outcomes :
          /\ Charge(ok)
          /\ IF ok
             THEN /\ documents' = WithoutChunkRows(documents, del_file)
                  /\ pc' = "del_rows"
                  /\ UNCHANGED del_ok
             ELSE /\ del_ok' = FALSE
                  /\ pc' = del_ret
                  /\ UNCHANGED documents
    /\ UNCHANGED <<remoteVars, document_rows, document_metadata, known_files, ret,
                   pfVars, del_file, del_ret, ragVars, clVars, idrVars, textVars, was_cleaned,
                   callerVars>>

\* lines 46-51: delete the tabular rows; an exception is printed and dropped
DeleteRows ==
    /\ pc = "del_rows"
    /\ \E ok \in Outcomes :
          /\ Charge(ok)
          /\ document_rows' = IF ok THEN [document_rows EXCEPT ![del_file] = <<>>]
                              ELSE document_rows
    /\ pc' = "del_meta"
    /\ UNCHANGED <<remoteVars, documents, document_metadata, known_files, ret, pfVars,
                   delVars, ragVars, clVars, idrVars, textVars, was_cleaned,
                   callerVars>>

\* lines 53-60: delete the metadata row; an exception is printed and dropped;
\* True is returned
DeleteMetadata ==
    /\ pc = "del_meta"
    /\ \E ok \in Outcomes :
          /\ Charge(ok)
          /\ document_metadata' = IF ok THEN {m \in document_metadata : m.id # del_file}
                                  ELSE document_metadata
    /\ del_ok' = TRUE
    /\ pc' = del_ret
    /\ UNCHANGED <<remoteVars, documents, document_rows, known_files, ret, pfVars,
                   del_file, del_ret, ragVars, clVars, idrVars, textVars, was_cleaned,
                   callerVars>>

\* process_file is called with the dictionary a listing gave for the file
CallProcessFile(f) == ProcessFileCall(FileDict(f))

(* process_file_for_rag (db_handler.py:222-281) and the functions it calls *)

\* process_file_for_rag returns False
RagFails ==
    /\ rag_ok' = FALSE
    /\ pc' = "pf_after_rag"

\* lines 241-243: delete_document_by_file_id is called; its result is not read
RagStart ==
    /\ pc = "rag_start"
    /\ rag_prior' = documents[pf_file.id]
    /\ del_file' = pf_file.id
    /\ del_ret' = "rag_meta"
    /\ pc' = "del_docs"
    /\ UNCHANGED <<remoteVars, storeVars, known_files, ret, pfVars, del_ok,
                   rag_chunks, rag_embeddings, meta_found, ins_i, rag_ok, clVars,
                   idrVars, textVars, was_cleaned, failures,
                   callerVars>>

\* lines 246, 160-162: insert_or_update_document_metadata looks the row up
RagMetaSelect ==
    /\ pc = "rag_meta"
    /\ \E ok \in Outcomes :
          /\ Charge(ok)
          /\ IF ok
             THEN /\ meta_found' = (\E m \in document_metadata : m.id = pf_file.id)
                  /\ pc' = "rag_meta_write"
                  /\ UNCHANGED rag_ok
             ELSE /\ RagFails
                  /\ UNCHANGED meta_found
    /\ UNCHANGED <<remoteVars, storeVars, known_files, ret, pfVars, delVars,
                   rag_chunks, rag_embeddings, ins_i, rag_prior, clVars, idrVars,
                   textVars, was_cleaned,
                   callerVars>>

\* an upsert that inserts the row whether or not one was found
UpsertedMetadataInsertOnly(metadata, found, row) == metadata \cup {row}

\* lines 175-183: update(data).eq("id", file_id) if the row was found,
\* insert(data) if not
UpsertedMetadata(metadata, found, row) ==
    IF found THEN {IF m.id = row.id THEN row ELSE m : m \in metadata}
    ELSE metadata \cup {row}

\* lines 164-188: the row is updated if it was found and inserted if not (id is
\* the primary key: inserting a second row for it raises)
RagMetaWrite ==
    /\ pc = "rag_meta_write"
    /\ LET row == MetaRow(pf_file.id, pf_file.name, pf_file.webViewLink)
           there == \E m \in document_metadata : m.id = pf_file.id
       IN  \E ok \in Outcomes :
              /\ Charge(ok)
              /\ IF ok /\ (meta_found \/ ~there)
                 THEN /\ document_metadata' =
                             UpsertedMetadata(document_metadata, meta_found, row)
                      /\ pc' = "rag_chunk"
                      /\ UNCHANGED rag_ok
                 ELSE /\ RagFails
                      /\ UNCHANGED document_metadata
    /\ UNCHANGED <<remoteVars, documents, document_rows, known_files, ret, pfVars,
                   delVars, rag_chunks, rag_embeddings, meta_found, ins_i, rag_prior,
                   clVars, idrVars, textVars, was_cleaned,
                   callerVars>>

\* lines 249-261: the text is chunked with the configured size and overlap 0
RagChunk ==
    /\ pc = "rag_chunk"
    /\ rag_chunks' = chunk_text(pf_text, ChunkSizeCfg, 0)
    /\ IF rag_chunks' = <<>>
       THEN RagFails
       ELSE pc' = "rag_embed" /\ UNCHANGED rag_ok
    /\ UNCHANGED <<remoteVars, storeVars, known_files, ret, pfVars, delVars,
                   rag_embeddings, meta_found, ins_i, rag_prior, clVars, idrVars,
                   textVars, was_cleaned, failures,
                   callerVars>>

\* lines 263-267, 278-281: create_embeddings returns the vectors or raises
RagEmbed ==
    /\ pc = "rag_embed"
    /\ \E ok \in Outcomes :
          /\ Charge(ok)
          /\ IF ok /\ ProviderEmbeddings(EmbedInput(rag_chunks)) # <<>>
             THEN /\ rag_embeddings' = ProviderEmbeddings(EmbedInput(rag_chunks))
                  /\ pc' = "ins_check"
                  /\ UNCHANGED rag_ok
             ELSE /\ RagFails
                  /\ UNCHANGED rag_embeddings
    /\ UNCHANGED <<remoteVars, storeVars, known_files, ret, pfVars, delVars,
                   rag_chunks, meta_found, ins_i, rag_prior, clVars, idrVars, textVars, was_cleaned,
                   callerVars>>

\* insert_document_chunks, lines 113-133: chunks and embeddings must be of the
\* same number
InsertCheck ==
    /\ pc = "ins_check"
    /\ IF Len(rag_chunks) # Len(rag_embeddings)
       THEN RagFails /\ UNCHANGED ins_i
       ELSE /\ ins_i' = 0
            /\ pc' = "ins_row"
            /\ UNCHANGED rag_ok
    /\ UNCHANGED <<remoteVars, storeVars, known_files, ret, pfVars, delVars,
                   rag_chunks, rag_embeddings, meta_found, rag_prior, clVars, idrVars,
                   textVars, was_cleaned, failures,
                   callerVars>>

\* an except clause that takes back the k rows the call has inserted
AfterFailedInsertRolledBack(docs, file_id, k) ==
    [docs EXCEPT ![file_id] = SubSeq(@, 1, Len(@) - k)]

\* insert_document_chunks, lines 141-143: the except clause prints and returns
\* False; the k rows the call has inserted stay in the table
AfterFailedInsert(docs, file_id, k) == docs

\* insert_document_chunks, lines 136-137, 141-143: the rows are inserted one by
\* one; an insert that raises ends the call with False
InsertRow ==
    /\ pc = "ins_row"
    /\ ins_i < Len(rag_chunks)
    /\ \E ok \in Outcomes :
          /\ Charge(ok)
          /\ IF ok
             THEN /\ documents' =
                         [documents EXCEPT ![pf_file.id] =
                             Append(@, DocRow(ins_i, rag_chunks[ins_i + 1],
                                              rag_embeddings[ins_i + 1]))]
                  /\ ins_i' = ins_i + 1
                  /\ UNCHANGED <<pc, rag_ok>>
             ELSE /\ RagFails
                  /\ documents' = AfterFailedInsert(documents, pf_file.id, ins_i)
                  /\ UNCHANGED ins_i
    /\ UNCHANGED <<remoteVars, document_rows, document_metadata, known_files, ret,
                   pfVars, delVars, rag_chunks, rag_embeddings, meta_found, rag_prior,
                   clVars, idrVars, textVars, was_cleaned,
                   callerVars>>

\* insert_document_chunks, line 139: every row is inserted, True is returned
InsertDone ==
    /\ pc = "ins_row"
    /\ ins_i = Len(rag_chunks)
    /\ rag_ok' = TRUE
    /\ pc' = "pf_after_rag"
    /\ UNCHANGED <<remoteVars, storeVars, known_files, ret, pfVars, delVars,
                   rag_chunks, rag_embeddings, meta_found, ins_i, rag_prior, clVars,
                   idrVars, textVars, was_cleaned, failures,
                   callerVars>>

(* detect_trashed_files (google_drive.py:299-341) *)

\* the trashed files that were deleted from the store and have no chunk row,
\* no tabular row and no metadata row
FullyCleaned ==
    {f \in FileIds : /\ remote_trashed[f]
                     /\ f \in was_cleaned
                     /\ documents[f] = <<>>
                     /\ document_rows[f] = <<>>
                     /\ ~\E m \in document_metadata : m.id = f}

\* cleanup_trashed_files is called (by the watcher's loop or the cleanup endpoint)
CallCleanupTrashedFiles ==
    /\ pc = "idle"
    /\ pre_store' = <<documents, document_rows, document_metadata>>
    /\ pre_known' = known_files
    /\ pre_cleaned' = FullyCleaned
    /\ pc' = "dt_list"
    /\ UNCHANGED <<remoteVars, storeVars, known_files, ret, pfVars, delVars, ragVars,
                   dt_files, dt_i, trashed_file_ids, cl_i, cleaned_count, error_count,
                   cl_cleaned, idrVars, textVars, was_cleaned, failures,
                   callerVars>>

\* lines 312-328, 339-341: the trashed files that have the folder as a parent
\* (all trashed files of the Drive when no folder is set) are listed; if the
\* listing raises, [] is returned
DetectList ==
    /\ pc = "dt_list"
    /\ \E ok \in Outcomes :
          /\ Charge(ok)
          /\ IF ok
             THEN /\ dt_files' = SelectSeq(FileOrder, LAMBDA f :
                                    /\ f \in drive_files
                                    /\ remote_trashed[f]
                                    /\ folder_id # NoFolder => Parents[f] = folder_id)
                  /\ dt_i' = 1
                  /\ pc' = "dt_check"
             ELSE /\ pc' = "cl_start"
                  /\ UNCHANGED <<dt_files, dt_i>>
    /\ UNCHANGED <<remoteVars, storeVars, known_files, ret, pfVars, delVars, ragVars,
                   trashed_file_ids, cl_i, cleaned_count, error_count, pre_store,
                   pre_known, pre_cleaned, cl_cleaned, idrVars, textVars, was_cleaned,
                   callerVars>>

\* lines 330-335: a listed file is kept if check_document_exists finds it;
\* check_document_exists answers False when a query raises (db_handler.py:90-92)
DetectCheck ==
    /\ pc = "dt_check"
    /\ dt_i <= Len(dt_files)
    /\ \E ok \in Outcomes :
          /\ Charge(ok)
          /\ trashed_file_ids' =
                 IF ok /\ CheckDocumentExists(documents, document_metadata, dt_files[dt_i])
                 THEN Append(trashed_file_ids, dt_files[dt_i])
                 ELSE trashed_file_ids
    /\ dt_i' = dt_i + 1
    /\ UNCHANGED <<remoteVars, storeVars, known_files, pc, ret, pfVars, delVars,
                   ragVars, dt_files, cl_i, cleaned_count, error_count, pre_store,
                   pre_known, pre_cleaned, cl_cleaned, idrVars, textVars, was_cleaned,
                   callerVars>>

\* line 337: trashed_file_ids is returned
DetectReturn ==
    /\ pc = "dt_check"
    /\ dt_i > Len(dt_files)
    /\ pc' = "cl_start"
    /\ UNCHANGED <<remoteVars, storeVars, known_files, ret, pfVars, delVars, ragVars,
                   clVars, idrVars, textVars, was_cleaned, failures,
                   callerVars>>

(* cleanup_trashed_files (google_drive.py:343-382) *)

\* lines 352-360: nothing to clean gives {"cleaned": 0, "errors": 0}
CleanupStart ==
    /\ pc = "cl_start"
    /\ IF trashed_file_ids = <<>>
       THEN /\ Return("cleanup_trashed_files", "-", TRUE, 0, 0)
            /\ UNCHANGED <<cl_i, cleaned_count, error_count>>
       ELSE /\ cl_i' = 1
            /\ cleaned_count' = 0
            /\ error_count' = 0
            /\ pc' = "cl_loop"
            /\ UNCHANGED ret
    /\ UNCHANGED <<remoteVars, storeVars, known_files, pfVars, delVars, ragVars,
                   dt_files, dt_i, trashed_file_ids, pre_store, pre_known, pre_cleaned,
                   cl_cleaned, idrVars, textVars, was_cleaned, failures,
                   callerVars>>

\* lines 362-364: the next id is deleted from the store
CleanupLoop ==
    /\ pc = "cl_loop"
    /\ cl_i <= Len(trashed_file_ids)
    /\ del_file' = trashed_file_ids[cl_i]
    /\ del_ret' = "cl_deleted"
    /\ pc' = "del_docs"
    /\ UNCHANGED <<remoteVars, storeVars, known_files, ret, pfVars, del_ok, ragVars,
                   clVars, idrVars, textVars, was_cleaned, failures,
                   callerVars>>

\* lines 365-371: a successful delete is counted as cleaned and the file is
\* forgotten, a failed one is counted as an error
CleanupDeleted ==
    /\ pc = "cl_deleted"
    /\ IF del_ok
       THEN /\ cleaned_count' = cleaned_count + 1
            /\ known_files' = IF del_file \in DOMAIN known_files
                              THEN DictDel(known_files, del_file)
                              ELSE known_files
            /\ cl_cleaned' = cl_cleaned \cup {del_file}
            /\ was_cleaned' = was_cleaned \cup {del_file}
            /\ UNCHANGED error_count
       ELSE /\ error_count' = error_count + 1
            /\ UNCHANGED <<cleaned_count, known_files, cl_cleaned, was_cleaned>>
    /\ cl_i' = cl_i + 1
    /\ pc' = "cl_loop"
    /\ UNCHANGED <<remoteVars, storeVars, ret, pfVars, delVars, ragVars, dt_files,
                   dt_i, trashed_file_ids, pre_store, pre_known, pre_cleaned, idrVars,
                   textVars, failures,
                   callerVars>>

\* lines 376-378: the counts are returned
CleanupReturn ==
    /\ pc = "cl_loop"
    /\ cl_i > Len(trashed_file_ids)
    /\ Return("cleanup_trashed_files", "-", TRUE, cleaned_count, error_count)
    /\ UNCHANGED <<remoteVars, storeVars, known_files, pfVars, delVars, ragVars,
                   clVars, idrVars, textVars, was_cleaned, failures,
                   callerVars>>

(* insert_document_rows (db_handler.py:190-219) *)

\* a caller stores the rows of a tabular file
CallInsertDocumentRows(f) ==
    /\ pc = "idle"
    /\ is_tabular_file(MimeType[f])
    /\ idr_file' = f
    /\ pc' = "idr_delete"
    /\ UNCHANGED <<remoteVars, storeVars, known_files, ret, pfVars, delVars, ragVars,
                   clVars, idr_i, textVars, was_cleaned, failures,
                   callerVars>>

\* lines 203-205: the rows the file had are deleted
InsertRowsDelete ==
    /\ pc = "idr_delete"
    /\ \E ok \in Outcomes :
          /\ Charge(ok)
          /\ IF ok
             THEN /\ document_rows' = [document_rows EXCEPT ![idr_file] = <<>>]
                  /\ idr_i' = 1
                  /\ pc' = "idr_insert"
                  /\ UNCHANGED ret
             ELSE /\ Return("insert_document_rows", idr_file, FALSE, 0, 0)
                  /\ UNCHANGED <<document_rows, idr_i>>
    /\ UNCHANGED <<remoteVars, documents, document_metadata, known_files, pfVars,
                   delVars, ragVars, clVars, idr_file, textVars, was_cleaned,
                   callerVars>>

\* lines 207-212: the rows are inserted one by one
InsertRowsInsert ==
    /\ pc = "idr_insert"
    /\ idr_i <= Len(TabularRows)
    /\ \E ok \in Outcomes :
          /\ Charge(ok)
          /\ IF ok
             THEN /\ document_rows' = [document_rows EXCEPT ![idr_file] =
                                          Append(@, TabularRows[idr_i])]
                  /\ idr_i' = idr_i + 1
                  /\ UNCHANGED <<pc, ret>>
             ELSE /\ Return("insert_document_rows", idr_file, FALSE, 0, 0)
                  /\ UNCHANGED <<document_rows, idr_i>>
    /\ UNCHANGED <<remoteVars, documents, document_metadata, known_files, pfVars,
                   delVars, ragVars, clVars, idr_file, textVars, was_cleaned,
                   callerVars>>

\* line 215: True is returned
InsertRowsReturn ==
    /\ pc = "idr_insert"
    /\ idr_i > Len(TabularRows)
    /\ Return("insert_document_rows", idr_file, TRUE, 0, 0)
    /\ UNCHANGED <<remoteVars, storeVars, known_files, pfVars, delVars, ragVars,
                   clVars, idrVars, textVars, was_cleaned, failures,
                   callerVars>>

\* the caller has the result: the locals of the call are gone
ClearLocals ==
    /\ pc' = "idle"
    /\ ret' = NoRet
    /\ pf_file' = NoFile
    /\ pf_content' = <<>>
    /\ pf_text' = <<>>
    /\ pf_request' = NoRequest
    /\ del_file' = "-"
    /\ del_ret' = "-"
    /\ del_ok' = FALSE
    /\ rag_chunks' = <<>>
    /\ rag_embeddings' = <<>>
    /\ meta_found' = FALSE
    /\ ins_i' = 0
    /\ rag_ok' = FALSE
    /\ rag_prior' = <<>>
    /\ dt_files' = <<>>
    /\ dt_i' = 0
    /\ trashed_file_ids' = <<>>
    /\ cl_i' = 0
    /\ cleaned_count' = 0
    /\ error_count' = 0
    /\ pre_store' = <<>>
    /\ pre_known' = <<>>
    /\ pre_cleaned' = {}
    /\ cl_cleaned' = {}
    /\ idr_file' = "-"
    /\ idr_i' = 0

\* the task takes the result and is ready for its next call
Resume ==
    /\ pc = "returned"
    /\ ClearLocals
    /\ UNCHANGED <<remoteVars, storeVars, known_files, textVars, was_cleaned, failures,
                   callerVars>>

Next ==
    \/ \E f \in drive_files : RemoteModify(f)
    \/ \E f \in drive_files : RemoteTrash(f)
    \/ \E f \in drive_files : CallProcessFile(f)
    \/ ProcessFileStart
    \/ ProcessFileTrashed
    \/ ProcessFileDownload
    \/ ProcessFileExtract
    \/ ProcessFileAfterRag
    \/ DeleteDocuments
    \/ DeleteRows
    \/ DeleteMetadata
    \/ RagStart
    \/ RagMetaSelect
    \/ RagMetaWrite
    \/ RagChunk
    \/ RagEmbed
    \/ InsertCheck
    \/ InsertRow
    \/ InsertDone
    \/ CallCleanupTrashedFiles
    \/ DetectList
    \/ DetectCheck
    \/ DetectReturn
    \/ CleanupStart
    \/ CleanupLoop
    \/ CleanupDeleted
    \/ CleanupReturn
    \/ \E f \in drive_files : CallInsertDocumentRows(f)
    \/ InsertRowsDelete
    \/ InsertRowsInsert
    \/ InsertRowsReturn
    \/ Resume

Spec == Init /\ [][Next]_vars

(***************************************************************************)
(* Specification SpecRename: process_file is called again and again for    *)
(* files whose owner renames them; a rename sets the modifiedTime of the   *)
(* file.                                                                   *)
(***************************************************************************)
\* the name a renamed file has
Renamed == "renamed.txt"

\* the dictionary a listing gives for a file that may have been renamed
RenamedFileDict(f) ==
    [FileDict(f) EXCEPT !.name = IF remote_mtime[f] > Created THEN Renamed ELSE @]

\* the owner of a remote file renames it
RemoteRename(f) ==
    /\ pc = "idle"
    /\ RevBudget > 0
    /\ remote_mtime[f] = Created
    /\ now' = now + 1
    /\ remote_mtime' = [remote_mtime EXCEPT ![f] = now + 1]
    /\ UNCHANGED <<remote_trashed, remote_content, storeVars, known_files, pc, ret, pfVars,
                   delVars, ragVars, clVars, idrVars, textVars, was_cleaned, failures,
                   callerVars>>

NextRename ==
    \/ \E f \in drive_files : RemoteRename(f)
    \/ \E f \in drive_files : ProcessFileCall(RenamedFileDict(f))
    \/ ProcessFileStart
    \/ ProcessFileDownload
    \/ ProcessFileExtract
    \/ ProcessFileAfterRag
    \/ DeleteDocuments
    \/ DeleteRows
    \/ DeleteMetadata
    \/ RagStart
    \/ RagMetaSelect
    \/ RagMetaWrite
    \/ RagChunk
    \/ RagEmbed
    \/ InsertCheck
    \/ InsertRow
    \/ InsertDone
    \/ Resume

SpecRename == Init /\ [][NextRename]_vars

(***************************************************************************)
(* Specification SpecFetch: process_file up to the extraction of the text, *)
(* for a file of any of these types, names and contents.  The content of a *)
(* native Google file is what its export gives.                            *)
(***************************************************************************)
\* the longest of the short contents
MaxHtmlLen == 3

\* a content of more than MinHtmlLen characters: a tag and its text
LongHtml == [i \in 1..(MinHtmlLen + 4) |->
                CASE i = 1 -> "<" [] i = 2 -> "p" [] i = 3 -> ">" [] OTHER -> "a"]

\* the contents the file can have
FetchContents == TextsOver({"a", "<", ">"}, MaxHtmlLen) \cup {LongHtml}

\* the types the file can have: plain text, HTML, the native Google types, a
\* supported type that has no branch of its own in extract_text_from_file, and
\* a type that is not supported
FetchMimeTypes ==
    { "text/plain", "text/html",
      "application/vnd.google-apps.document",
      "application/vnd.google-apps.spreadsheet",
      "application/vnd.google-apps.presentation",
      "application/vnd.openxmlformats-officedocument.spreadsheetml.sheet",
      "image/png" }

\* the names the file can have
FetchNames == {"notes.txt", "page.html", "doc"}

InitFetch ==
    /\ SnIdle
    /\ CkIdle
    /\ EmIdle
    /\ MonitorIdle
    /\ CallerIdle
    /\ LocalsIdle
    /\ drive_files = {"f1"}
    /\ folder_id = FolderId
    /\ markdown_available \in BOOLEAN
    /\ now = Created
    /\ remote_trashed = [f \in FileIds |-> FALSE]
    /\ \E c \in FetchContents :
          remote_content = [f \in FileIds |-> IF f = "f1" THEN c ELSE ContentA]
    /\ remote_mtime = [f \in FileIds |-> Created]
    /\ documents = [f \in FileIds |-> <<>>]
    /\ document_rows = [f \in FileIds |-> <<>>]
    /\ document_metadata = {}
    /\ known_files = <<>>
    /\ pc = "idle"
    /\ ret = NoRet
    /\ failures = 0
    /\ was_cleaned = {}

NextFetch ==
    \/ \E m \in FetchMimeTypes : \E n \in FetchNames :
          ProcessFileCall([FileDict("f1") EXCEPT !.mimeType = m, !.name = n])
    \/ ProcessFileStart
    \/ ProcessFileDownload
    \/ ProcessFileExtract
    \/ Resume

SpecFetch == InitFetch /\ [][NextFetch]_vars

(***************************************************************************)
(* Specification SpecWatch: watch_for_changes (google_drive.py:481-525)    *)
(* on a watcher that was constructed over a store an earlier run may have  *)
(* filled: the bulk reconciliation, then polling cycles.  Every call to    *)
(* Drive, to the store or to the provider is one step that succeeds or     *)
(* raises; the steps of process_file and cleanup_trashed_files are those   *)
(* of Spec.                                                                *)
(***************************************************************************)
\* the sets of files a Drive holds in the runs that are checked
DriveConfigs == {{"f1", "f2"}, {"f3"}, {"f4"}}

\* the chunk rows a run of the pipeline stores for a file of content ContentA
StoredRows(f) ==
    LET chunks == chunk_text(extract_text_from_file(ContentA, MimeType[f], FileName[f],
                                                    TRUE),
                             ChunkSizeCfg, 0)
    IN  RowsOf(chunks, ProviderEmbeddings(EmbedInput(chunks)))

InitWatch ==
    /\ SnIdle
    /\ CkIdle
    /\ EmIdle
    /\ drive_files \in DriveConfigs
    /\ folder_id \in {FolderId, NoFolder}
    /\ markdown_available = TRUE
    /\ now = Created
    /\ remote_trashed \in [FileIds -> BOOLEAN]
    /\ \A f \in FileIds \ drive_files : ~remote_trashed[f]
    /\ remote_content = [f \in FileIds |-> ContentA]
    /\ remote_mtime = [f \in FileIds |-> Created]
    /\ \E stored \in SUBSET {f \in drive_files : IsSupported(MimeType[f])} :
       \E half \in SUBSET {f \in drive_files \ stored : IsSupported(MimeType[f])} :
          /\ documents = [f \in FileIds |-> IF f \in stored THEN StoredRows(f) ELSE <<>>]
          /\ document_metadata =
                 {MetaRow(f, FileName[f], WebViewLink[f]) : f \in stored \cup half}
    /\ document_rows = [f \in FileIds |-> <<>>]
    /\ known_files = <<>>
    /\ pc = "idle"
    /\ ret = NoRet
    /\ failures = 0
    /\ was_cleaned = {}
    /\ LocalsIdle
    /\ last_check_time = Epoch
    /\ initialized = FALSE
    /\ w_pc = "w_start"
    /\ changed_files = <<>>
    /\ w_i = 0
    /\ cycles = 0
    /\ polled_at = Epoch
    /\ calls = <<>>
    /\ all_files = <<>>
    /\ is_i = 0
    /\ files_to_process = <<>>
    /\ trashed_files_to_cleanup = <<>>
    /\ stats = NoStats
    /\ MonitorIdle

\* the variables no step of watch_for_changes or initialize_and_sync_files
\* writes itself
calleeVars == <<pfVars, delVars, ragVars, clVars, idrVars>>

\* the file dictionaries a listing gives for these ids
ListOf(ids) == [i \in 1..Len(ids) |-> FileDict(ids[i])]

\* the files that have the folder as a parent
InFolder(folder) ==
    SelectSeq(FileOrder, LAMBDA f : f \in drive_files /\ Parents[f] = folder)

\* modifiedTime > time_str or createdTime > time_str
ChangedSince(ids, time) ==
    SelectSeq(ids, LAMBDA f : remote_mtime[f] > time \/ Created > time)

(* initialize_and_sync_files (google_drive.py:384-479) *)

\* watch_for_changes, lines 492-495, and initialize_and_sync_files, lines
\* 397-402: the bulk reconciliation runs if the watcher is not initialized; it
\* returns at once when no folder is set
WatchStart ==
    /\ w_pc = "w_start"
    /\ pc = "idle"
    /\ w_pc' = IF initialized THEN "w_cycle"
               ELSE IF folder_id = NoFolder THEN "is_done" ELSE "is_list"
    /\ UNCHANGED <<remoteVars, storeVars, known_files, pc, ret, failures, was_cleaned,
                   calleeVars, textVars, cfgVars, monVars, syncVars, last_check_time,
                   initialized, changed_files, w_i, cycles, polled_at, calls>>

\* lines 404-415, 476-479: every file that has the folder as a parent is
\* listed; if the listing raises, an error is counted and stats is returned
InitSyncList ==
    /\ w_pc = "is_list"
    /\ pc = "idle"
    /\ \E ok \in Outcomes :
          /\ Charge(ok)
          /\ IF ok
             THEN /\ all_files' = ListOf(InFolder(folder_id))
                  /\ is_i' = 1
                  /\ w_pc' = "is_filter"
                  /\ UNCHANGED stats
             ELSE /\ stats' = [stats EXCEPT !.errors = @ + 1]
                  /\ w_pc' = "is_done"
                  /\ UNCHANGED <<all_files, is_i>>
    /\ UNCHANGED <<remoteVars, storeVars, known_files, pc, ret, was_cleaned,
                   calleeVars, textVars, cfgVars, monVars, files_to_process,
                   trashed_files_to_cleanup, last_check_time, initialized,
                   changed_files, w_i, cycles, polled_at, calls>>

\* lines 422-439: a file of an unsupported type is skipped, a trashed file is
\* kept for the cleanup if check_document_exists finds it, any other file is
\* kept for processing
InitSyncFilter ==
    /\ w_pc = "is_filter"
    /\ pc = "idle"
    /\ is_i <= Len(all_files)
    /\ LET file      == all_files[is_i]
           supported == IsSupported(file.mimeType)
       IN  \E ok \in (IF supported /\ file.trashed THEN Outcomes ELSE {TRUE}) :
              /\ Charge(ok)
              /\ trashed_files_to_cleanup' =
                     IF /\ supported
                        /\ file.trashed
                        /\ ok
                        /\ CheckDocumentExists(documents, document_metadata, file.id)
                     THEN Append(trashed_files_to_cleanup, file)
                     ELSE trashed_files_to_cleanup
              /\ files_to_process' =
                     IF supported /\ ~file.trashed
                     THEN Append(files_to_process, file)
                     ELSE files_to_process
    /\ is_i' = is_i + 1
    /\ UNCHANGED <<remoteVars, storeVars, known_files, pc, ret, was_cleaned,
                   calleeVars, textVars, cfgVars, monVars, all_files, stats, watchVars>>

\* a variant of the order of the steps in which the active files are processed
\* before the trashed files are cleaned up
InitSyncNextProcessFirst(step, has_trashed) ==
    CASE step = "is_filter"  -> "is_process"
      [] step = "is_process" -> IF has_trashed THEN "is_cleanup" ELSE "is_done"
      [] OTHER               -> "is_done"

\* the order of the steps of initialize_and_sync_files after the listing: the
\* filter loop (lines 422-439), the cleanup if a trashed file was kept (lines
\* 443-447), the processing loop (lines 449-467), the return (lines 469-474)
InitSyncNext(step, has_trashed) ==
    CASE step = "is_filter"  -> IF has_trashed THEN "is_cleanup" ELSE "is_process"
      [] step = "is_cleanup" -> "is_process"
      [] OTHER               -> "is_done"

\* line 441: the filter loop is over
InitSyncFiltered ==
    /\ w_pc = "is_filter"
    /\ pc = "idle"
    /\ is_i > Len(all_files)
    /\ w_pc' = InitSyncNext("is_filter", trashed_files_to_cleanup # <<>>)
    /\ is_i' = 1
    /\ UNCHANGED <<remoteVars, storeVars, known_files, pc, ret, failures, was_cleaned,
                   calleeVars, textVars, cfgVars, monVars, all_files, files_to_process,
                   trashed_files_to_cleanup, stats, last_check_time, initialized,
                   changed_files, w_i, cycles, polled_at, calls>>

\* lines 444-445: cleanup_trashed_files is called
InitSyncCleanup ==
    /\ w_pc = "is_cleanup"
    /\ CallCleanupTrashedFiles

\* lines 446-447: the counts of the cleanup go into stats
InitSyncAfterCleanup ==
    /\ w_pc = "is_cleanup"
    /\ pc = "returned"
    /\ stats' = [stats EXCEPT !.cleaned = ret.cleaned, !.errors = @ + ret.errors,
                              !.cleanup_errors = ret.errors]
    /\ ClearLocals
    /\ w_pc' = InitSyncNext("is_cleanup", TRUE)
    /\ is_i' = 1
    /\ initialized' = (initialized \/ w_pc' = "is_done")
    /\ UNCHANGED <<remoteVars, storeVars, known_files, failures, was_cleaned,
                   textVars, cfgVars, monVars, all_files, files_to_process,
                   trashed_files_to_cleanup, last_check_time, changed_files, w_i,
                   cycles, polled_at, calls>>

\* lines 450-460: a file check_document_exists finds is skipped and recorded
\* in known_files; any other file is passed to process_file
InitSyncCheck ==
    /\ w_pc = "is_process"
    /\ pc = "idle"
    /\ is_i <= Len(files_to_process)
    /\ LET file == files_to_process[is_i]
       IN  \E ok \in Outcomes :
              /\ Charge(ok)
              /\ IF ok /\ CheckDocumentExists(documents, document_metadata, file.id)
                 THEN /\ known_files' = DictSet(known_files, file.id, file.modifiedTime)
                      /\ stats' = [stats EXCEPT !.skipped = @ + 1]
                      /\ is_i' = is_i + 1
                      /\ UNCHANGED <<w_pc, calls>>
                 ELSE /\ w_pc' = "is_pf"
                      /\ calls' = Append(calls, [id |-> file.id, failures |-> failures'])
                      /\ UNCHANGED <<known_files, stats, is_i>>
    /\ UNCHANGED <<remoteVars, storeVars, pc, ret, was_cleaned, calleeVars, textVars,
                   cfgVars, monVars, all_files, files_to_process, trashed_files_to_cleanup,
                   last_check_time, initialized, changed_files, w_i, cycles,
                   polled_at>>

\* line 463: process_file is called
InitSyncProcessFile ==
    /\ w_pc = "is_pf"
    /\ ProcessFileCall(files_to_process[is_i])

\* lines 464-467: the result is counted as processed or as an error
InitSyncAfterProcessFile ==
    /\ w_pc = "is_pf"
    /\ pc = "returned"
    /\ stats' = IF ret.ok THEN [stats EXCEPT !.processed = @ + 1]
                ELSE [stats EXCEPT !.errors = @ + 1]
    /\ is_i' = is_i + 1
    /\ ClearLocals
    /\ w_pc' = "is_process"
    /\ UNCHANGED <<remoteVars, storeVars, known_files, failures, was_cleaned,
                   textVars, cfgVars, monVars, all_files, files_to_process,
                   trashed_files_to_cleanup, last_check_time, initialized,
                   changed_files, w_i, cycles, polled_at, calls>>

\* lines 469-474: the processing loop is over; after the last step
\* self.initialized is set and stats is returned
InitSyncProcessed ==
    /\ w_pc = "is_process"
    /\ pc = "idle"
    /\ is_i > Len(files_to_process)
    /\ w_pc' = InitSyncNext("is_process", trashed_files_to_cleanup # <<>>)
    /\ initialized' = (initialized \/ w_pc' = "is_done")
    /\ UNCHANGED <<remoteVars, storeVars, known_files, pc, ret, failures, was_cleaned,
                   calleeVars, textVars, cfgVars, monVars, syncVars, last_check_time,
                   changed_files, w_i, cycles, polled_at, calls>>

\* watch_for_changes, line 495: initialize_and_sync_files has returned; its
\* stats are dropped
WatchAfterInit ==
    /\ w_pc = "is_done"
    /\ pc = "idle"
    /\ all_files' = <<>>
    /\ is_i' = 0
    /\ files_to_process' = <<>>
    /\ trashed_files_to_cleanup' = <<>>
    /\ stats' = NoStats
    /\ calls' = <<>>
    /\ w_pc' = "w_cycle"
    /\ UNCHANGED <<remoteVars, storeVars, known_files, pc, ret, failures, was_cleaned,
                   calleeVars, textVars, cfgVars, monVars, last_check_time, initialized,
                   changed_files, w_i, cycles, polled_at>>

(* the polling loop of watch_for_changes (google_drive.py:497-519) *)

\* get_folder_contents (lines 109-145) for the folder: its files changed since
\* the time, then those of its subfolder; a subfolder whose listing raises
\* gives none
FolderContents(folder, time, sub_ok) ==
    ChangedSince(InFolder(folder), time)
        \o (IF folder = FolderId /\ sub_ok
            THEN ChangedSince(InFolder(SubfolderId), time)
            ELSE <<>>)

\* the outcomes of the listing calls of one get_changes: all succeed, a call
\* for the folder itself raises, or a call for the subfolder raises
ListOutcomes ==
    IF FailureBudget <= 0 THEN {"ok"}
    ELSE IF folder_id = NoFolder THEN {"ok", "raises"}
    ELSE {"ok", "raises", "sub_raises"}

\* a variant of get_changes and get_folder_contents without their except clauses
GetChangesCatchesNothing(outcome) == outcome = "ok"

\* the except clauses of get_folder_contents (lines 143-145) and get_changes
\* (lines 185-187) catch every exception of a listing call
GetChangesCatches(outcome) == TRUE

\* line 501 and get_changes (lines 147-183): with a folder set, the changed
\* files of the folder and its subfolder are listed, and [] stands for a
\* listing that raised; without a folder, the changed files of the Drive are
\* listed, and if the listing raises [] is returned at once.  The listing is
\* evaluated by Drive at this step; last_check_time is set when it has
\* returned.  An exception that is not caught ends watch_for_changes (lines
\* 523-525).
GetChanges ==
    /\ w_pc = "w_cycle"
    /\ pc = "idle"
    /\ cycles < MaxCycles
    /\ polled_at' = now
    /\ calls' = <<>>
    /\ \E outcome \in ListOutcomes :
          /\ failures' = IF outcome = "ok" THEN failures ELSE failures + 1
          /\ IF ~GetChangesCatches(outcome)
             THEN /\ w_pc' = "w_raised"
                  /\ UNCHANGED changed_files
             ELSE IF folder_id # NoFolder
                  THEN /\ changed_files' =
                              IF outcome = "raises" THEN <<>>
                              ELSE ListOf(FolderContents(folder_id, last_check_time,
                                                         outcome = "ok"))
                       /\ w_pc' = "w_listed"
                  ELSE IF outcome = "ok"
                       THEN /\ changed_files' =
                                   ListOf(ChangedSince(
                                       SelectSeq(FileOrder, LAMBDA f : f \in drive_files),
                                       last_check_time))
                            /\ w_pc' = "w_listed"
                       ELSE /\ changed_files' = <<>>
                            /\ w_pc' = "w_sweep"
    /\ UNCHANGED <<remoteVars, storeVars, known_files, pc, ret, was_cleaned,
                   calleeVars, textVars, cfgVars, monVars, syncVars, last_check_time,
                   initialized, w_i, cycles>>

\* get_changes, lines 168-169 and 180-181: the listing has returned;
\* self.last_check_time = datetime.now(timezone.utc)
GetChangesStamp ==
    /\ w_pc = "w_listed"
    /\ pc = "idle"
    /\ last_check_time' = now
    /\ w_pc' = "w_sweep"
    /\ UNCHANGED <<remoteVars, storeVars, known_files, pc, ret, failures, was_cleaned,
                   calleeVars, textVars, cfgVars, monVars, syncVars, initialized,
                   changed_files, w_i, cycles, polled_at, calls>>

\* lines 505-507: in some cycles cleanup_trashed_files is called
WatchSweep ==
    /\ w_pc = "w_sweep"
    /\ CallCleanupTrashedFiles

\* line 507: cleanup_trashed_files has returned; its counts are dropped
WatchAfterSweep ==
    /\ w_pc = "w_sweep"
    /\ pc = "returned"
    /\ ClearLocals
    /\ w_pc' = "w_files"
    /\ w_i' = 1
    /\ UNCHANGED <<remoteVars, storeVars, known_files, failures, was_cleaned,
                   textVars, cfgVars, monVars, syncVars, last_check_time, initialized,
                   changed_files, cycles, polled_at, calls>>

\* line 505: in the other cycles it is not called
WatchNoSweep ==
    /\ w_pc = "w_sweep"
    /\ pc = "idle"
    /\ w_pc' = "w_files"
    /\ w_i' = 1
    /\ UNCHANGED <<remoteVars, storeVars, known_files, pc, ret, failures, was_cleaned,
                   calleeVars, textVars, cfgVars, monVars, syncVars, last_check_time,
                   initialized, changed_files, cycles, polled_at, calls>>

\* line 512: the loop takes the next changed file
WatchNextFile ==
    /\ w_pc = "w_files"
    /\ pc = "idle"
    /\ w_i <= Len(changed_files)
    /\ w_pc' = "w_pf"
    /\ calls' = Append(calls, [id |-> changed_files[w_i].id, failures |-> failures])
    /\ UNCHANGED <<remoteVars, storeVars, known_files, pc, ret, failures, was_cleaned,
                   calleeVars, textVars, cfgVars, monVars, syncVars, last_check_time,
                   initialized, changed_files, w_i, cycles, polled_at>>

\* line 513: process_file is called
WatchProcessFile ==
    /\ w_pc = "w_pf"
    /\ ProcessFileCall(changed_files[w_i])

\* line 513: process_file has returned; its result is dropped
WatchAfterProcessFile ==
    /\ w_pc = "w_pf"
    /\ pc = "returned"
    /\ ClearLocals
    /\ w_pc' = "w_files"
    /\ w_i' = w_i + 1
    /\ UNCHANGED <<remoteVars, storeVars, known_files, failures, was_cleaned,
                   textVars, cfgVars, monVars, syncVars, last_check_time, initialized,
                   changed_files, cycles, polled_at, calls>>

\* lines 514-519: every changed file was passed on; the task sleeps
WatchSleep ==
    /\ w_pc = "w_files"
    /\ pc = "idle"
    /\ w_i > Len(changed_files)
    /\ w_pc' = "w_sleep"
    /\ cycles' = cycles + 1
    /\ UNCHANGED <<remoteVars, storeVars, known_files, pc, ret, failures, was_cleaned,
                   calleeVars, textVars, cfgVars, monVars, syncVars, last_check_time,
                   initialized, changed_files, w_i, polled_at, calls>>

\* line 497: the sleep is over; the next cycle begins
WatchWake ==
    /\ w_pc = "w_sleep"
    /\ pc = "idle"
    /\ w_pc' = "w_cycle"
    /\ changed_files' = <<>>
    /\ w_i' = 0
    /\ UNCHANGED <<remoteVars, storeVars, known_files, pc, ret, failures, was_cleaned,
                   calleeVars, textVars, cfgVars, monVars, syncVars, last_check_time,
                   initialized, cycles, polled_at, calls>>

\* the steps of the task that runs watch_for_changes
WatcherStep ==
    \/ WatchStart
    \/ InitSyncList
    \/ InitSyncFilter
    \/ InitSyncFiltered
    \/ InitSyncCleanup
    \/ InitSyncAfterCleanup
    \/ InitSyncCheck
    \/ InitSyncProcessFile
    \/ InitSyncAfterProcessFile
    \/ InitSyncProcessed
    \/ WatchAfterInit
    \/ GetChanges
    \/ GetChangesStamp
    \/ WatchSweep
    \/ WatchAfterSweep
    \/ WatchNoSweep
    \/ WatchNextFile
    \/ WatchProcessFile
    \/ WatchAfterProcessFile
    \/ WatchSleep
    \/ WatchWake
    \/ ProcessFileStart
    \/ ProcessFileTrashed
    \/ ProcessFileDownload
    \/ ProcessFileExtract
    \/ ProcessFileAfterRag
    \/ DeleteDocuments
    \/ DeleteRows
    \/ DeleteMetadata
    \/ RagStart
    \/ RagMetaSelect
    \/ RagMetaWrite
    \/ RagChunk
    \/ RagEmbed
    \/ InsertCheck
    \/ InsertRow
    \/ InsertDone
    \/ DetectList
    \/ DetectCheck
    \/ DetectReturn
    \/ CleanupStart
    \/ CleanupLoop
    \/ CleanupDeleted
    \/ CleanupReturn

NextWatch ==
    \/ \E f \in drive_files : RemoteModify(f)
    \/ \E f \in drive_files : RemoteTrash(f)
    \/ WatcherStep

SpecWatch == InitWatch /\ [][NextWatch]_vars

(***************************************************************************)
(* Specification SpecGap: process_file is called again and again, as in    *)
(* SpecRename, over a store an earlier run may have filled, for a file     *)
(* whose text has a chunk in which nothing but whitespace is found.        *)
(***************************************************************************)
\* a content whose second chunk of ChunkSizeCfg characters is two newlines
ContentGap == <<"a", "b", NL, NL, "a">>

InitGap ==
    /\ SnIdle
    /\ CkIdle
    /\ EmIdle
    /\ MonitorIdle
    /\ CallerIdle
    /\ LocalsIdle
    /\ drive_files = {"f1", "f2"}
    /\ folder_id = FolderId
    /\ markdown_available = TRUE
    /\ now = Created
    /\ remote_trashed = [f \in FileIds |-> FALSE]
    /\ remote_content = [f \in FileIds |-> IF f = "f1" THEN ContentGap ELSE ContentA]
    /\ remote_mtime = [f \in FileIds |-> Created]
    /\ \E stored \in SUBSET drive_files :
          /\ documents = [f \in FileIds |-> IF f \in stored THEN StoredRows(f) ELSE <<>>]
          /\ document_metadata = {MetaRow(f, FileName[f], WebViewLink[f]) : f \in stored}
    /\ document_rows = [f \in FileIds |-> <<>>]
    /\ known_files = <<>>
    /\ pc = "idle"
    /\ ret = NoRet
    /\ failures = 0
    /\ was_cleaned = {}

SpecGap == InitGap /\ [][NextRename]_vars

(***************************************************************************)
(* Properties of chunk_text, checked under SpecChunk.                      *)
(***************************************************************************)
\* the lengths of the chunks, in order
ChunkLens(chunks) == [i \in 1..Len(chunks) |-> Len(chunks[i])]

\* C5: with overlap >= chunk_size every iteration of chunk_text's loop moves
\* start strictly forward (so that start >= len(text) is reached).
C5_LoopAdvances ==
    [][(ck_pc = "loop" /\ ck_overlap >= ck_size /\ ck_chunks' # ck_chunks)
          => ck_start' > ck_start]_vars

\* C6: with 0 < overlap < chunk_size chunk_text returns exactly
\* ceil(len(t) / (chunk_size - overlap)) chunks, each of length <= chunk_size:
\* the list never grows beyond that count and has that count on return.
C6_OverlapChunkCount ==
    (ck_pc \in {"loop", "done"} /\ 0 < ck_overlap /\ ck_overlap < ck_size)
        => /\ Len(ck_chunks) <= CeilDiv(Len(ck_text), ck_size - ck_overlap)
           /\ \A i \in 1..Len(ck_chunks) : Len(ck_chunks[i]) <= ck_size
           /\ ck_pc = "done"
                 => Len(ck_chunks) = CeilDiv(Len(ck_text), ck_size - ck_overlap)

\* C7: with overlap = 0 the returned chunks concatenate to the sanitized text,
\* every chunk has at most chunk_size characters and every chunk but the last
\* exactly chunk_size, there are ceil(len(t) / chunk_size) chunks, input that
\* sanitizes to empty gives [], and 1000 characters at 400 give [400, 400, 200].
C7_ChunksPartitionText ==
    (ck_pc = "done" /\ ck_overlap = 0)
        => LET t == sanitize_text(ck_arg)
               n == Len(ck_chunks)
           IN  /\ Concat(ck_chunks) = t
               /\ \A i \in 1..n : Len(ck_chunks[i]) <= ck_size
               /\ \A i \in 1..(n - 1) : Len(ck_chunks[i]) = ck_size
               /\ n = CeilDiv(Len(t), ck_size)
               /\ t = <<>> => ck_chunks = <<>>
               /\ (ck_arg = ExampleText /\ ck_size = 400)
                      => ChunkLens(ck_chunks) = <<400, 400, 200>>

\* chunk_text has returned several chunks of which the last is shorter, from an
\* input that sanitize_text changed
C7_Witness ==
    /\ ck_pc = "done"
    /\ ck_overlap = 0
    /\ Len(ck_chunks) >= 2
    /\ Len(ck_chunks[Len(ck_chunks)]) < ck_size
    /\ ck_text # ck_arg

(***************************************************************************)
(* Properties of sanitize_text, checked under SpecSanitize.                *)
(***************************************************************************)
\* C8: sanitize_text(sanitize_text(x)) = sanitize_text(x), and sanitize_text(x)
\* holds no removed control character, no two consecutive spaces and no
\* leading or trailing whitespace.
C8_SanitizeIdempotent ==
    /\ sn_pc \in {"once", "twice"}
          => /\ \A i \in 1..Len(sn_once) : sn_once[i] \notin ControlChars
             /\ \A i \in 2..Len(sn_once) : ~(sn_once[i] = SP /\ sn_once[i - 1] = SP)
             /\ sn_once # <<>>
                   => /\ sn_once[1] \notin Whitespace
                      /\ sn_once[Len(sn_once)] \notin Whitespace
    /\ sn_pc = "twice" => sn_twice = sn_once

\* sanitize_text was applied twice to a text with a control character between
\* two spaces inside it
C8_Witness ==
    /\ sn_pc = "twice"
    /\ \E i \in 2..(Len(sn_text) - 2) :
          /\ sn_text[i - 1] = "a"
          /\ sn_text[i] = SP
          /\ sn_text[i + 1] = CTL
          /\ sn_text[i + 2] = SP
          /\ sn_text[Len(sn_text)] = "a"
    /\ sn_once = <<"a", SP, "a">>

(***************************************************************************)
(* Properties of create_embeddings, checked under SpecEmbed.               *)
(***************************************************************************)
\* the entries of texts that are not empty after sanitize_text, in their order
NonEmptyEntries(texts) == SelectSeq(texts, LAMBDA t : sanitize_text(t) # <<>>)

\* C9: create_embeddings returns one vector per entry of texts that is not
\* empty after sanitize_text, in the order of those entries; the entries that
\* sanitize to empty are neither sent to the provider nor in the output; with
\* no entry left it returns [] and the provider is not called.
C9_EmbeddingsAligned ==
    LET kept == NonEmptyEntries(em_texts)
    IN  /\ em_pc = "returned"
              => /\ Len(em_result) = Len(kept)
                 /\ \A i \in 1..Len(kept) :
                        em_result[i] = Embedding(sanitize_text(kept[i]))
                 /\ kept # <<>>
                        => provider_requests =
                               <<[i \in 1..Len(kept) |-> sanitize_text(kept[i])]>>
        /\ \A r \in 1..Len(provider_requests) :
              \A i \in 1..Len(provider_requests[r]) : provider_requests[r][i] # <<>>
        /\ (em_pc # "call" /\ kept = <<>>)
              => /\ em_pc = "returned"
                 /\ em_result = <<>>
                 /\ provider_requests = <<>>

\* create_embeddings has returned for a list with an entry that sanitizes to
\* empty between two entries that do not
C9_Witness ==
    /\ em_pc = "returned"
    /\ Len(em_texts) = 3
    /\ sanitize_text(em_texts[1]) # <<>>
    /\ sanitize_text(em_texts[2]) = <<>>
    /\ sanitize_text(em_texts[3]) # <<>>
    /\ sanitize_text(em_texts[1]) # sanitize_text(em_texts[3])
    /\ Len(em_result) = 2

(***************************************************************************)
(* Properties of the store and the watcher, checked under Spec.            *)
(***************************************************************************)
\* the contents of chunk rows, in their order
ContentsOf(rows) == [i \in 1..Len(rows) |-> rows[i].content]

\* the store holds no chunk row, no tabular row and no metadata row for f
NoRecords(f) ==
    /\ documents[f] = <<>>
    /\ document_rows[f] = <<>>
    /\ ~\E m \in document_metadata : m.id = f

\* process_file has returned True for a file that was not trashed
ProcessedOk ==
    /\ pc = "returned"
    /\ ret.op = "process_file"
    /\ ret.ok
    /\ ~pf_file.trashed

\* C1: when a file that has chunk rows of an earlier run is processed again
\* with different content, the documents table then holds exactly the chunk
\* rows of the second run, also when the second run's delete fails.
C1_FullReplace ==
    (ProcessedOk /\ rag_prior # <<>> /\ ContentsOf(rag_prior) # rag_chunks)
        => documents[pf_file.id] = RowsOf(rag_chunks, rag_embeddings)

\* C2: in every state the chunk rows of a file_id have pairwise distinct
\* chunk_index values that form the range 0..N-1.
C2_ChunkIndexRange ==
    \A f \in FileIds :
        LET rows == documents[f]
        IN  /\ \A i, j \in 1..Len(rows) :
                  i # j => rows[i].chunk_index # rows[j].chunk_index
            /\ {rows[i].chunk_index : i \in 1..Len(rows)} = 0..(Len(rows) - 1)

\* C3: when the trashed handling of process_file or cleanup_trashed_files has
\* reported success for a file_id, the store holds no chunk row, no tabular row
\* and no metadata row for it and it is no key of known_files.
C3_TrashedRemovesAll ==
    /\ (pc = "returned" /\ ret.op = "process_file" /\ ret.ok /\ pf_file.trashed)
          => /\ NoRecords(pf_file.id)
             /\ pf_file.id \notin DOMAIN known_files
    /\ \A f \in cl_cleaned :
          /\ NoRecords(f)
          /\ f \notin DOMAIN known_files

\* C4: a run of cleanup_trashed_files neither deletes nor counts a trashed file
\* that was fully cleaned before, and leaves its records and its known_files
\* entry as they were; when every trashed file the run lists was fully cleaned
\* before, the store and known_files are unchanged and the cleaned count is 0.
C4_CleanupIdempotent ==
    (pc = "returned" /\ ret.op = "cleanup_trashed_files")
        => /\ \A f \in pre_cleaned :
                  /\ f \notin cl_cleaned
                  /\ \A i \in 1..Len(trashed_file_ids) : trashed_file_ids[i] # f
                  /\ NoRecords(f)
                  /\ f \notin DOMAIN known_files <=> f \notin DOMAIN pre_known
                  /\ f \in DOMAIN known_files => known_files[f] = pre_known[f]
           /\ (\A i \in 1..Len(dt_files) : dt_files[i] \in pre_cleaned)
                  => /\ <<documents, document_rows, document_metadata>> = pre_store
                     /\ known_files = pre_known
                     /\ ret.cleaned = 0

\* cleanup_trashed_files has run and has listed a trashed file that had been
\* fully cleaned before the run; the run counts nothing
C4_Witness ==
    /\ pc = "returned"
    /\ ret.op = "cleanup_trashed_files"
    /\ Len(dt_files) > 0
    /\ \A i \in 1..Len(dt_files) : dt_files[i] \in pre_cleaned
    /\ ret.cleaned = 0

\* C10: after process_file has succeeded for a file that is not trashed and
\* whose text gives N chunks, the store holds exactly N chunk rows for the
\* file_id, with chunk_index 0..N-1 and the chunks as content, and exactly one
\* metadata row with the file_id, whose title is the file's name.
C10_ProcessedFileStored ==
    ProcessedOk
        => LET chunks == chunk_text(pf_text, ChunkSizeCfg, 0)
               rows   == documents[pf_file.id]
               meta   == {m \in document_metadata : m.id = pf_file.id}
           IN  /\ Len(rows) = Len(chunks)
               /\ \A i \in 1..Len(rows) :
                      /\ rows[i].chunk_index = i - 1
                      /\ rows[i].content = chunks[i]
               /\ Cardinality(meta) = 1
               /\ \A m \in meta : m.title = FileName[pf_file.id]

(***************************************************************************)
(* Specification SpecMonitor: the requests of main.py that start and stop  *)
(* the polling task and run the manual cleanup, the polling tasks, and the *)
(* calls of AsyncDatabaseHandler that run in the threads of the executor.  *)
(* A step is what one coroutine does between two suspensions on the event  *)
(* loop, or the completion of a call in a thread.  What a polling task     *)
(* awaits next depends on the remote files and is chosen freely.           *)
(***************************************************************************)
InitMonitor ==
    /\ SnIdle
    /\ CkIdle
    /\ EmIdle
    /\ WatcherInit
    /\ is_monitoring = FALSE
    /\ monitoring_task = NoTask
    /\ task_at = [t \in TaskIds |-> "none"]
    /\ cancel_req = [t \in TaskIds |-> FALSE]
    /\ running = {}
    /\ api_at = "idle"
    /\ connected \in BOOLEAN
    /\ request = "-"
    /\ before_stop = <<>>
    /\ stopped = {}

\* what no step of main.py writes
restVars == <<textVars, remoteVars, storeVars, known_files, pc, ret, failures, was_cleaned,
              calleeVars, cfgVars, watchVars, syncVars>>

\* the methods of AsyncDatabaseHandler the watcher awaits (db_handler.py:386-405),
\* and those that write to the store
DbOps == {"check_document_exists", "delete_document_by_file_id", "process_file_for_rag"}
MutatingOps == {"delete_document_by_file_id", "process_file_for_rag"}

\* the state a stop request finds
MonitorState == <<is_monitoring, monitoring_task, task_at, cancel_req, running>>

\* the step handles this request, or none
Handles(name) ==
    /\ request' = name
    /\ before_stop' = IF name \in {"stop", "stop_inactive"} THEN MonitorState ELSE <<>>

\* run_in_executor: the call starts in a thread
Submit(owner, op) == running' = running \cup {[owner |-> owner, op |-> op]}

\* the call of this owner, if any, has returned in its thread
Returned(owner) == \A o \in running : o.owner # owner

\* websocket_endpoint (main.py:354): a client connects
websocket_endpoint ==
    /\ ~connected
    /\ connected' = TRUE
    /\ Handles("-")
    /\ UNCHANGED <<is_monitoring, monitoring_task, task_at, cancel_req, running, api_at,
                   stopped, restVars>>

\* start_monitoring (main.py:199-230): rejected while is_monitoring is set;
\* otherwise a task is created for start_background_monitoring (line 214-216)
\* and is_monitoring is set (line 217)
start_monitoring ==
    /\ is_monitoring \/ \E t \in TaskIds : task_at[t] = "none"
    /\ Handles("start")
    /\ IF is_monitoring
       THEN UNCHANGED <<is_monitoring, monitoring_task, task_at>>
       ELSE LET t == CHOOSE u \in TaskIds :
                         task_at[u] = "none" /\ \A v \in 1..(u - 1) : task_at[v] # "none"
            IN  /\ task_at' = [task_at EXCEPT ![t] = "created"]
                /\ monitoring_task' = t
                /\ is_monitoring' = TRUE
    /\ UNCHANGED <<cancel_req, running, api_at, connected, stopped, restVars>>

\* task.cancel() on a task that has ended does nothing; otherwise a
\* CancelledError is delivered to the task when it runs next
Cancel(t) == IF task_at[t] = "done" THEN cancel_req ELSE [cancel_req EXCEPT ![t] = TRUE]

\* stop_monitoring (main.py:233-258): nothing while is_monitoring is not set
\* (lines 237-239); otherwise the task is cancelled, monitoring_task is set to
\* None (lines 242-244) and is_monitoring is cleared (line 246)
stop_monitoring ==
    /\ IF ~is_monitoring
       THEN /\ Handles("stop_inactive")
            /\ UNCHANGED <<is_monitoring, monitoring_task, cancel_req, stopped>>
       ELSE /\ Handles("stop")
            /\ IF monitoring_task # NoTask
               THEN /\ cancel_req' = Cancel(monitoring_task)
                    /\ stopped' = stopped \cup {monitoring_task}
                    /\ monitoring_task' = NoTask
               ELSE UNCHANGED <<cancel_req, stopped, monitoring_task>>
            /\ is_monitoring' = FALSE
    /\ UNCHANGED <<task_at, running, api_at, connected, restVars>>

\* the task suspends at its next await inside watch_for_changes: a call of the
\* database handler in the executor (google_drive.py:254, 281, 333, 364, 436,
\* 456) or the sleep of line 519
PollerAwaits(t) ==
    \/ \E op \in DbOps :
          /\ task_at' = [task_at EXCEPT ![t] = "executor"]
          /\ Submit(t, op)
    \/ /\ task_at' = [task_at EXCEPT ![t] = "sleep"]
       /\ UNCHANGED running

\* start_background_monitoring (main.py:386-403): the task runs for the first
\* time; with a client connected it may suspend in the send_text of the
\* broadcast of line 400, otherwise it runs on into watch_for_changes
start_background_monitoring(t) ==
    /\ task_at[t] = "created"
    /\ ~cancel_req[t]
    /\ Handles("-")
    /\ \/ /\ connected
          /\ task_at' = [task_at EXCEPT ![t] = "broadcast"]
          /\ UNCHANGED running
       \/ PollerAwaits(t)
    /\ UNCHANGED <<is_monitoring, monitoring_task, cancel_req, api_at, connected, stopped,
                   restVars>>

\* main.py:57, 403: the send_text has completed; the task calls watch_for_changes
BroadcastSent(t) ==
    /\ task_at[t] = "broadcast"
    /\ ~cancel_req[t]
    /\ Handles("-")
    /\ PollerAwaits(t)
    /\ UNCHANGED <<is_monitoring, monitoring_task, cancel_req, api_at, connected, stopped,
                   restVars>>

\* watch_for_changes (google_drive.py:481-525): the awaited call has returned
\* or the sleep is over; the task runs to its next await
watch_for_changes(t) ==
    /\ task_at[t] \in {"executor", "sleep"}
    /\ ~cancel_req[t]
    /\ Returned(t)
    /\ Handles("-")
    /\ PollerAwaits(t)
    /\ UNCHANGED <<is_monitoring, monitoring_task, cancel_req, api_at, connected, stopped,
                   restVars>>

\* a task cancelled before it ran for the first time ends without running
CancelledUnstarted(t) ==
    /\ task_at[t] = "created"
    /\ cancel_req[t]
    /\ Handles("-")
    /\ task_at' = [task_at EXCEPT ![t] = "done"]
    /\ cancel_req' = [cancel_req EXCEPT ![t] = FALSE]
    /\ UNCHANGED <<is_monitoring, monitoring_task, running, api_at, connected, stopped,
                   restVars>>

\* ConnectionManager.broadcast (main.py:54-60): the CancelledError raised in
\* send_text is caught by the bare except of line 58, the connection is
\* removed, and the task runs on into watch_for_changes
CancelledInBroadcast(t) ==
    /\ task_at[t] = "broadcast"
    /\ cancel_req[t]
    /\ Handles("-")
    /\ cancel_req' = [cancel_req EXCEPT ![t] = FALSE]
    /\ connected' = FALSE
    /\ PollerAwaits(t)
    /\ UNCHANGED <<is_monitoring, monitoring_task, api_at, stopped, restVars>>

\* the CancelledError is raised at an await of watch_for_changes; no except
\* Exception clause catches it; start_background_monitoring clears
\* is_monitoring (main.py:407-409) and the task ends.  A call the task had in
\* the executor goes on in its thread.
CancelledInWatch(t) ==
    /\ task_at[t] \in {"executor", "sleep"}
    /\ cancel_req[t]
    /\ Handles("-")
    /\ is_monitoring' = FALSE
    /\ task_at' = [task_at EXCEPT ![t] = "done"]
    /\ cancel_req' = [cancel_req EXCEPT ![t] = FALSE]
    /\ UNCHANGED <<monitoring_task, running, api_at, connected, stopped, restVars>>

\* a call of the database handler returns in its thread
ExecutorDone(o) ==
    /\ o \in running
    /\ running' = running \ {o}
    /\ Handles("-")
    /\ UNCHANGED <<is_monitoring, monitoring_task, task_at, cancel_req, api_at, connected,
                   stopped, restVars>>

\* manual_cleanup (main.py:261-306) calls cleanup_trashed_files (line 274),
\* whose detect_trashed_files awaits check_document_exists for a listed file
\* (google_drive.py:333), or returns at once when no trashed file is listed
manual_cleanup ==
    /\ api_at = "idle"
    /\ Handles("cleanup")
    /\ \/ /\ api_at' = "detect"
          /\ Submit(ApiRequest, "check_document_exists")
       \/ UNCHANGED <<api_at, running>>
    /\ UNCHANGED <<is_monitoring, monitoring_task, task_at, cancel_req, connected, stopped,
                   restVars>>

\* cleanup_trashed_files of the request goes on: the next check of
\* detect_trashed_files, then the deletes of google_drive.py:364, then the
\* return
ManualCleanupNext ==
    /\ api_at \in {"detect", "delete"}
    /\ Returned(ApiRequest)
    /\ Handles("-")
    /\ \/ /\ api_at = "detect"
          /\ api_at' = "detect"
          /\ Submit(ApiRequest, "check_document_exists")
       \/ /\ api_at' = "delete"
          /\ Submit(ApiRequest, "delete_document_by_file_id")
       \/ /\ api_at' = "idle"
          /\ UNCHANGED running
    /\ UNCHANGED <<is_monitoring, monitoring_task, task_at, cancel_req, connected, stopped,
                   restVars>>

NextMonitor ==
    \/ websocket_endpoint
    \/ start_monitoring
    \/ stop_monitoring
    \/ manual_cleanup
    \/ ManualCleanupNext
    \/ \E t \in TaskIds : start_background_monitoring(t)
    \/ \E t \in TaskIds : BroadcastSent(t)
    \/ \E t \in TaskIds : watch_for_changes(t)
    \/ \E t \in TaskIds : CancelledUnstarted(t)
    \/ \E t \in TaskIds : CancelledInBroadcast(t)
    \/ \E t \in TaskIds : CancelledInWatch(t)
    \/ \E o \in running : ExecutorDone(o)

SpecMonitor == InitMonitor /\ [][NextMonitor]_vars

(***************************************************************************)
(* Properties of the polling task and the requests, checked under          *)
(* SpecMonitor.                                                            *)
(***************************************************************************)
\* a polling task that exists, has not ended and is not cancelled
Live(t) == task_at[t] \notin {"none", "done"} /\ ~cancel_req[t]

\* C11: whatever the order of start requests, stop requests and the handling
\* of the CancelledError in a cancelled task, at most one polling task is
\* live, and while is_monitoring is set monitoring_task is that task.
C11_AtMostOnePoller ==
    /\ Cardinality({t \in TaskIds : Live(t)}) <= 1
    /\ is_monitoring => (monitoring_task # NoTask /\ Live(monitoring_task))

\* C12: right after a stop request that found monitoring active,
\* is_monitoring is false and monitoring_task is None; a task stop_monitoring
\* has cancelled is waiting for its CancelledError or has ended, so it begins
\* no further cycle or per-file call; a stop request that found monitoring
\* not active has changed nothing.
C12_StopEndsPoller ==
    /\ request = "stop" => (~is_monitoring /\ monitoring_task = NoTask)
    /\ \A t \in stopped : cancel_req[t] \/ task_at[t] = "done"
    /\ request = "stop_inactive" => MonitorState = before_stop

\* C13: at most one storage-mutating call (delete_document_by_file_id or
\* process_file_for_rag) is in a thread of the executor at a time, counting
\* those of the manual cleanup request.
C13_OneMutationInFlight ==
    Cardinality({o \in running : o.op \in MutatingOps}) <= 1

(***************************************************************************)
(* Properties of initialize_and_sync_files and of the polling loop,        *)
(* checked under SpecWatch.                                                *)
(***************************************************************************)
\* initialize_and_sync_files is running or has just returned
InBulk == w_pc \in {"is_list", "is_filter", "is_cleanup", "is_process", "is_pf", "is_done"}

\* a step of detect_trashed_files or cleanup_trashed_files is next
InCleanup == pc \in {"dt_list", "dt_check", "cl_start", "cl_loop", "cl_deleted"}

\* a step of delete_document_by_file_id is next
InDelete == pc \in {"del_docs", "del_rows", "del_meta"}

\* C14: in a bulk reconciliation, once process_file has been called for an
\* active file, cleanup_trashed_files does not run and no delete for a trashed
\* file is issued: the only deletes are those of the pipeline for the active
\* file it processes.
C14_CleanupBeforeProcessing ==
    (InBulk /\ calls # <<>>)
        => /\ w_pc # "is_cleanup"
           /\ ~InCleanup
           /\ pc # "pf_trashed"
           /\ InDelete => (del_ret = "rag_meta" /\ del_file = pf_file.id)

\* the bulk reconciliation has cleaned a trashed file and now calls
\* process_file for an active one
C14_Witness ==
    /\ w_pc = "is_pf"
    /\ pc = "pf_start"
    /\ stats.cleaned > 0
    /\ Len(calls) = 1

\* C15: no step of a storage delete, of the metadata upsert or of the chunk
\* insert is taken for a file whose content type is not supported, trashed or
\* not.
C15_UnsupportedNeverTouchesStore ==
    /\ InDelete => IsSupported(MimeType[del_file])
    /\ pc \in {"rag_start", "rag_meta", "rag_meta_write", "rag_chunk", "rag_embed",
               "ins_check", "ins_row"} => IsSupported(pf_file.mimeType)

\* the files of the watched folder and of its subfolders, at any depth
InScope(f) == folder_id = NoFolder \/ Parents[f] \in FoldersUnder(folder_id)

\* C16: when a bulk reconciliation with a folder id has run to its end, every
\* supported file of the folder or of a subfolder that is not trashed was
\* passed to process_file or skipped as already stored.
C16_BulkCoversSubfolders ==
    (w_pc = "is_done" /\ initialized /\ folder_id # NoFolder)
        => \A f \in drive_files :
               (InScope(f) /\ ~remote_trashed[f] /\ IsSupported(MimeType[f]))
                   => \E i \in 1..Len(files_to_process) : files_to_process[i].id = f

\* C17: when cleanup_trashed_files has run without a raised call, every
\* trashed file of the watched folder or of a subfolder that had a chunk row or
\* a metadata row when the run began was deleted from the store.
C17_SweepCoversScope ==
    (pc = "returned" /\ ret.op = "cleanup_trashed_files" /\ failures = 0)
        => \A f \in drive_files :
               (/\ InScope(f)
                /\ remote_trashed[f]
                /\ CheckDocumentExists(pre_store[1], pre_store[3], f))
                   => /\ f \in cl_cleaned
                      /\ ~CheckDocumentExists(documents, document_metadata, f)

\* C18: when a polling cycle is over, last_check_time was set in the cycle: it
\* is not earlier than the time at which the cycle called get_changes,
\* whatever raised in the cycle, with and without a folder id.
C18_LastCheckAdvances ==
    w_pc = "w_sleep" => last_check_time >= polled_at

\* the ids of a sequence of file dictionaries or of calls
IdsOf(seq) == [i \in 1..Len(seq) |-> seq[i].id]

\* C19: a call of process_file during which a call raised returns False; the
\* task does not end by an exception, and when the cycle is over every
\* changed file was passed to process_file, in the order of the listing.
C19_FileErrorGivesFalse ==
    /\ (/\ w_pc \in {"is_pf", "w_pf"}
        /\ pc = "returned"
        /\ failures > calls[Len(calls)].failures) => ~ret.ok
    /\ w_pc # "w_raised"
    /\ w_pc = "w_sleep" => IdsOf(calls) = IdsOf(changed_files)

\* C20: a listing call or a call of the sweep that raises does not end
\* watch_for_changes: the task never ends by an exception, a cycle whose
\* listing raised goes on to the sweep and the sleep with no changed file, and
\* a sweep that returns, with errors or without, is followed by the per-file
\* loop.
C20_CycleErrorsKeepLoop ==
    /\ w_pc # "w_raised"
    /\ (w_pc \in {"w_sweep", "w_files", "w_pf", "w_sleep"} /\ last_check_time < polled_at)
           => changed_files = <<>>
    /\ (w_pc = "w_sweep" /\ pc = "returned") => ret.op = "cleanup_trashed_files"

\* the task is back at the head of the loop, with a cycle to go, after a cycle
\* in which the listing of get_changes raised (no folder is set and
\* last_check_time was not set)
C20_Witness ==
    /\ w_pc = "w_cycle"
    /\ cycles = 1
    /\ folder_id = NoFolder
    /\ last_check_time = Epoch
    /\ failures = 1

\* a step of process_file, of a delete, of process_file_for_rag or of the
\* cleanup is next, or a call has just returned
InCall == pc # "idle"

\* C21: with no folder id configured the polling loop runs no cycle, and no
\* file is downloaded, processed or deleted.
C21_NoFolderNoPolling ==
    folder_id = NoFolder
        => /\ cycles = 0
           /\ w_pc \notin {"w_listed", "w_sweep", "w_files", "w_pf", "w_sleep"}
           /\ ~InCall

(***************************************************************************)
(* Properties of process_file and process_file_for_rag, checked under Spec.*)
(***************************************************************************)
\* C22: in process_file_for_rag the delete of the file's rows and the upsert
\* of its metadata row are issued only after the text was chunked and the
\* chunks were embedded.
C22_DeleteAfterEmbedding ==
    (\/ InDelete /\ del_ret = "rag_meta"
     \/ pc \in {"rag_meta", "rag_meta_write"})
        => (rag_chunks # <<>> /\ rag_embeddings # <<>>)

\* the metadata rows of a file
MetaRowsOf(f) == {m \in document_metadata : m.id = f}

\* process_file has returned True for a file that had chunk rows when
\* process_file_for_rag began, no call has raised so far and no remote content
\* was modified: the rows were stored by a run with the same inputs
SecondRunOk ==
    /\ ProcessedOk
    /\ failures = 0
    /\ now = Created
    /\ rag_prior # <<>>

Extracted == pc \in {"rag_start", "returned"} /\ ~Falsy(pf_content)

\* C27: the text extracted from content of type text/html is the sanitized
\* result of the markdown conversion or of the removal of the tags, never the
\* decoded markup itself.
C27_HtmlThroughHtmlBranch ==
    (Extracted /\ pf_file.mimeType = "text/html")
        => pf_text \in {sanitize_text(Markdownify(Utf8Decode(pf_content))),
                        sanitize_text(StripTags(Utf8Decode(pf_content)))}

\* the types download_file is to export, each with the type it is to ask for
NativeExports ==
    { <<"application/vnd.google-apps.document", "text/html">>,
      <<"application/vnd.google-apps.presentation", "text/html">>,
      <<"application/vnd.google-apps.spreadsheet", "text/csv">> }

\* C28: download_file asks for an export exactly for a Google document or
\* presentation, as text/html, and for a Google spreadsheet, as text/csv, and
\* asks for the bytes of a file of any other type; it then returns the content,
\* or None if a call raised, and process_file goes on: no exception leaves it.
C28_ExportExactlyNativeTypes ==
    /\ [](pf_request # NoRequest
            => /\ \A e \in NativeExports :
                      pf_file.mimeType = e[1]
                          => pf_request = [method |-> "export_media",
                                           fileId |-> pf_file.id, mimeType |-> e[2]]
               /\ pf_file.mimeType \notin {e[1] : e \in NativeExports}
                      => pf_request = [method |-> "get_media", fileId |-> pf_file.id,
                                       mimeType |-> "-"])
    /\ [][pc = "pf_download"
            => /\ pf_request' # NoRequest
               /\ pc' \in {"pf_extract", "returned"}
               /\ failures' = failures => pf_content' = remote_content[pf_file.id]
               /\ failures' # failures
                      => /\ pf_content' = None
                         /\ pc' = "returned"
                         /\ ~ret'.ok]_vars

\* a Google spreadsheet was exported as text/csv and its content is at hand
C28_Witness ==
    /\ pc = "pf_extract"
    /\ pf_file.mimeType = "application/vnd.google-apps.spreadsheet"
    /\ pf_request.method = "export_media"
    /\ pf_request.mimeType = "text/csv"
    /\ pf_content = remote_content[pf_file.id]

\* process_file is at a file that is not trashed and has a supported type, and
\* has not called process_file_for_rag
BeforeRag ==
    \/ pc = "pf_start" /\ ~pf_file.trashed /\ IsSupported(pf_file.mimeType)
    \/ pc \in {"pf_download", "pf_extract"}

\* C30: up to the call of process_file_for_rag, process_file for a file that is
\* not trashed and has a supported type writes neither the tables nor
\* known_files; it goes on from the download only with content and from the
\* extraction only with text, and returns False otherwise.
C30_EarlyFailureLeavesStore ==
    [][(BeforeRag /\ pc' # pc)
          => /\ UNCHANGED <<documents, document_rows, document_metadata, known_files>>
             /\ pc' \in {"pf_download", "pf_extract", "rag_start", "returned"}
             /\ pc' = "pf_extract" => (pf_content' # None /\ pf_content' # <<>>)
             /\ pc' = "rag_start" => pf_text' # <<>>
             /\ pc' = "returned"
                   => /\ ret'.op = "process_file"
                      /\ ~ret'.ok
                      /\ \/ pf_content' = None
                         \/ pf_content' = <<>>
                         \/ pf_text' = <<>>]_vars

\* process_file has returned False for f1 because no text was found in its
\* new content; the rows stored for its old content are still there
C30_Witness ==
    /\ pc = "returned"
    /\ ret.op = "process_file"
    /\ ~ret.ok
    /\ pf_file.id = "f1"
    /\ ~pf_file.trashed
    /\ pf_content = ContentBlank
    /\ pf_text = <<>>
    /\ documents["f1"] # <<>>
    /\ "f1" \in DOMAIN known_files

(***************************************************************************)
(* Property of insert_or_update_document_metadata, checked under           *)
(* SpecRename.                                                             *)
(***************************************************************************)
\* the rows of a file in a document_metadata table
MetaRowsIn(metadata, f) == {m \in metadata : m.id = f}

\* the row insert_or_update_document_metadata is called with
PassedRow == MetaRow(pf_file.id, pf_file.name, pf_file.webViewLink)

C23_BulkRetriesFailedFile ==
    (w_pc = "is_done" /\ initialized)
        => \A i \in 1..Len(files_to_process) :
               documents[files_to_process[i].id] = <<>>
                   => \E j \in 1..Len(calls) : calls[j].id = files_to_process[i].id

\* the files the processing loop of the bulk reconciliation has passed without
\* a call of process_file
SkippedFiles ==
    {i \in 1..Len(files_to_process) :
        /\ i < is_i
        /\ \A j \in 1..Len(calls) : calls[j].id # files_to_process[i].id}

\* the loop is at a file and check_document_exists returns True for it
SkipCase ==
    /\ w_pc = "is_process"
    /\ pc = "idle"
    /\ is_i <= Len(files_to_process)
    /\ CheckDocumentExists(documents, document_metadata, files_to_process[is_i].id)
    /\ failures' = failures

Listing == w_pc = "w_cycle" /\ w_pc' = "w_listed" /\ failures' = failures

\* C29: in a run in which no call raises, a listing of get_changes returns
\* every file in scope that was modified after the listing of the get_changes
\* before it was evaluated (polled_at is that instant when the listing is
\* made).
C29_NoChangeLost ==
    [][(Listing /\ failures = 0)
          => \A f \in drive_files :
                 (InScope(f) /\ remote_mtime[f] > polled_at)
                     => \E i \in 1..Len(changed_files') : changed_files'[i].id = f]_vars

(***************************************************************************)
(* Property of process_file_for_rag and insert_document_chunks, checked    *)
(* under SpecGap.                                                          *)
(***************************************************************************)
\* a chunk of the text sanitizes to the empty string
EmptyChunk == \E i \in 1..Len(rag_chunks) : sanitize_text(rag_chunks[i]) = <<>>

\* C31: when a chunk sanitizes to the empty string, create_embeddings returns
\* fewer vectors than there are chunks, insert_document_chunks inserts no row,
\* and process_file_for_rag returns False with one metadata row and no chunk
\* row stored for the file.
C31_EmptyChunkRejected ==
    /\ (pc = "ins_check" /\ EmptyChunk) => Len(rag_embeddings) < Len(rag_chunks)
    /\ pc = "ins_row" => ~EmptyChunk
    /\ (pc = "pf_after_rag" /\ EmptyChunk /\ rag_embeddings # <<>>)
           => /\ ~rag_ok
              /\ documents[pf_file.id] = <<>>
              /\ MetaRowsIn(document_metadata, pf_file.id) = {PassedRow}

(***************************************************************************)
(* Property of insert_document_chunks, checked under Spec.                 *)
(***************************************************************************)
\* the first k rows insert_document_chunks builds from its arguments
OwnRows(k) == SubSeq(RowsOf(rag_chunks, rag_embeddings), 1, k)

\* the chunk rows of the file are the first k rows of this call, after the
\* rows the table held for the file when the call began: none, or those of an
\* earlier run if their delete had raised
HoldsOwnRows(k) ==
    documents[pf_file.id] \in {OwnRows(k), rag_prior \o OwnRows(k)}

\* insert_document_chunks has returned False after it began to insert
InsertFailed ==
    /\ pc = "pf_after_rag"
    /\ ~rag_ok
    /\ rag_embeddings # <<>>
    /\ Len(rag_chunks) = Len(rag_embeddings)

PollerUnfinished == monitoring_task # NoTask /\ task_at[monitoring_task] # "done"

\* C33: is_monitoring is set exactly when monitoring_task holds a polling task
\* that has not ended.
C33_FlagMatchesTask == is_monitoring <=> PollerUnfinished

(***************************************************************************)
(* Property of the counts of initialize_and_sync_files, checked under      *)
(* SpecWatch.                                                              *)
(***************************************************************************)
\* the listed files that are not trashed and have a supported type (no folder
\* has one)
ActiveListed ==
    {i \in 1..Len(all_files) :
        IsSupported(all_files[i].mimeType) /\ ~all_files[i].trashed}

\* the bulk reconciliation of a watcher with a folder id has run to its end
BulkDone == w_pc = "is_done" /\ initialized /\ folder_id # NoFolder

\* the processing loop has counted every listed active file once
CountsAddUp ==
    BulkDone => stats.processed + stats.skipped + (stats.errors - stats.cleanup_errors)
                    = Cardinality(ActiveListed)

\* cleaned is the number of files whose delete reported success
CleanedCountsReports ==
    /\ (w_pc = "is_cleanup" /\ pc = "returned") => ret.cleaned = Cardinality(cl_cleaned)
    /\ w_pc \in {"is_process", "is_pf", "is_done"} => stats.cleaned = Cardinality(was_cleaned)

\* C34: when the bulk reconciliation of a watcher with a folder id has run to
\* its end, processed + skipped + (errors - the errors of the cleanup) is the
\* number of listed files that are not trashed and have a supported type, and
\* cleaned is the number of trashed files deleted from the store: every file
\* the cleanup counted has no record left when the cleanup returns.
C34_BulkCountsAddUp ==
    /\ CountsAddUp
    /\ CleanedCountsReports
    /\ (w_pc = "is_cleanup" /\ pc = "returned") => \A f \in cl_cleaned : NoRecords(f)

(***************************************************************************)
(* Property of known_files, checked under Spec.                            *)
(***************************************************************************)
\* C35: every key of known_files has a chunk row or a metadata row in the
\* store.
C35_KnownFilesAreStored ==
    \A f \in DOMAIN known_files :
        \/ Len(documents[f]) > 0
        \/ \E m \in document_metadata : m.id = f

====
